---- MODULE Spec2Model ----
(***************************************************************************)
(* A model of the rstdms TDMS reader: the segment scan run by              *)
(* TdmsFile::new (tdms_reader.rs), the object-path registry               *)
(* (object_path.rs), the dense object map (object_map.rs), the per-segment *)
(* data extractor (segment.rs, interleaved.rs) and the read entry point    *)
(* Channel::read_all_data (lib.rs).                                        *)
(*                                                                         *)
(* Option<T> is modelled as a sequence of length at most one: <<>> is      *)
(* None and <<v>> is Some(v).  Object ids and arena ids are 0-based as in  *)
(* the source; the sequences that hold them are 1-based.                   *)
(***************************************************************************)
EXTENDS Integers, Sequences, FiniteSets

VARIABLES
    pc,                      \* "scan" | "open" | "failed" | "panic"
    err,                     \* kind of the error open returned, "" if none
    cursor,                  \* position of the byte stream
    file_len,                \* length of the byte stream, -1 while not yet reached
    path_to_id,              \* ObjectPathCache.path_to_id: path string -> id
    id_to_path,              \* ObjectPathCache.id_to_path
    properties,              \* TdmsReader.properties, per object id
    data_indexes,            \* TdmsReader.data_indexes (arena of RawDataIndex)
    raw_data_index_cache,    \* TdmsReader.raw_data_index_cache (ObjectMap.values)
    segments,                \* TdmsReader.segments
    channel_data_index_map,  \* TdmsReader.channel_data_index_map (ObjectMap.values)
    object_indexes,          \* ObjectMerger.object_indexes (ObjectMap.values)
    record_log,              \* history: every object record read, with its resolution
    rd,                      \* history: the last read_all_data call, as it returned
    last_read,               \* history: a read_all_data call the caller kept
    scan_log,                \* history: every read_segment call, with its result
    lib_call                 \* history: the last direct call of a function of
                             \* the crate, with its arguments and its result

readerVars == <<path_to_id, id_to_path, properties, data_indexes,
                raw_data_index_cache, segments, channel_data_index_map,
                object_indexes>>
vars == <<pc, err, cursor, file_len, path_to_id, id_to_path, properties,
          data_indexes, raw_data_index_cache, segments, channel_data_index_map,
          object_indexes, record_log, rd, last_read, scan_log, lib_call>>

None == <<>>
Some(v) == <<v>>
IsSome(o) == o # <<>>
Unwrap(o) == o[1]

Min(a, b) == IF a < b THEN a ELSE b

----------------------------------------------------------------------------
(* Bounds of the model. *)

MaxSegments == 2
MaxCount == 2
MaxRawLen == 4
MaxChunks == 2
MaxCacheSegments == 3
MaxObjectSegments == 3
MaxNameLen == 2
MaxIds == 3
MaxRows == 2
MaxBufLen == 3
MaxReads == 3
MaxMapId == 2
MaxMapCalls == 3
MaxWrapSegments == 3

----------------------------------------------------------------------------
(* toc.rs: the ToC bit mask. *)

TocMetaData == 2
TocNewObjList == 4
TocRawData == 8
TocInterleavedData == 32
TocBigEndian == 64
TocDaqMxRawData == 128

\* TocMask::has_flag: (flags & flag_val) == flag_val, flag a single bit
has_flag(flags, flag) == (flags \div flag) % 2 = 1

----------------------------------------------------------------------------
(* types.rs: the element types. *)

TdsTypes == {"Void", "I8", "I16", "I32", "I64", "U8", "U16", "U32", "U64",
             "SingleFloat", "DoubleFloat", "ExtendedFloat",
             "SingleFloatWithUnit", "DoubleFloatWithUnit",
             "ExtendedFloatWithUnit", "String", "Boolean", "TimeStamp",
             "FixedPoint", "ComplexSingleFloat", "ComplexDoubleFloat",
             "DaqmxRawData"}

\* TdsType::size
size(t) ==
    CASE t = "Void" -> Some(0)
      [] t \in {"I8", "U8", "Boolean"} -> Some(1)
      [] t \in {"I16", "U16"} -> Some(2)
      [] t \in {"I32", "U32", "SingleFloat", "SingleFloatWithUnit"} -> Some(4)
      [] t \in {"I64", "U64", "DoubleFloat", "DoubleFloatWithUnit",
                "ComplexSingleFloat"} -> Some(8)
      [] t \in {"ExtendedFloat", "ExtendedFloatWithUnit", "TimeStamp",
                "ComplexDoubleFloat"} -> Some(16)
      [] OTHER -> None

\* native_type with Boolean read as a byte
native_type_boolean(t) ==
    CASE t \in {"I8", "I16", "I32", "I64", "U8", "U16", "U32", "U64"} -> Some(t)
      [] t \in {"SingleFloat", "SingleFloatWithUnit"} -> Some("F32")
      [] t \in {"DoubleFloat", "DoubleFloatWithUnit"} -> Some("F64")
      [] t = "TimeStamp" -> Some("Timestamp")
      [] t = "Boolean" -> Some("I8")
      [] OTHER -> None

\* TdsType::native_type
native_type(t) ==
    CASE t \in {"I8", "I16", "I32", "I64", "U8", "U16", "U32", "U64"} -> Some(t)
      [] t \in {"SingleFloat", "SingleFloatWithUnit"} -> Some("F32")
      [] t \in {"DoubleFloat", "DoubleFloatWithUnit"} -> Some("F64")
      [] t = "TimeStamp" -> Some("Timestamp")
      [] OTHER -> None

----------------------------------------------------------------------------
(* object_map.rs: ObjectMap<T>, a Vec<Option<T>> indexed by object id. *)

\* ObjectMap::set that keeps the value an id already has
ObjectMapSetOnce(values, id, v) ==
    IF id >= Len(values)
        THEN values \o [i \in 1..(id - Len(values)) |-> None] \o <<Some(v)>>
        ELSE IF values[id + 1] = None THEN [values EXCEPT ![id + 1] = Some(v)]
             ELSE values

\* ObjectMap::set that pushes the value without the padding below it
ObjectMapSetUnpadded(values, id, v) ==
    IF id >= Len(values)
        THEN Append(values, Some(v))
        ELSE [values EXCEPT ![id + 1] = Some(v)]

\* ObjectMap::set
ObjectMapSet(values, id, v) ==
    IF id >= Len(values)
        THEN values \o [i \in 1..(id - Len(values)) |-> None] \o <<Some(v)>>
        ELSE [values EXCEPT ![id + 1] = Some(v)]

\* ObjectMap::get and get_mut
ObjectMapGet(values, id) ==
    IF id < Len(values) THEN values[id + 1] ELSE None

\* ObjectMap::clear
ObjectMapClear(values) == <<>>

----------------------------------------------------------------------------
(* object_path.rs: object paths.  A string is a sequence of one-character  *)
(* strings.  A parsed ObjectPath is a record: kind "Root", "Group" or      *)
(* "Channel", with the group and channel names (empty when not used).      *)

QUOTE == "'"
SLASH == "/"

\* The name taken as it is, its quotes not doubled
EscapeQuotesNot(name) == name

\* str::replace("'", "''")
EscapeQuotes(name) ==
    LET RECURSIVE esc(_)
        esc(i) == IF i > Len(name) THEN <<>>
                  ELSE (IF name[i] = QUOTE THEN <<QUOTE, QUOTE>> ELSE <<name[i]>>)
                       \o esc(i + 1)
    IN esc(1)

\* str::replace("''", "'"): leftmost non-overlapping matches
UnescapeQuotes(text) ==
    LET RECURSIVE un(_)
        un(i) == IF i > Len(text) THEN <<>>
                 ELSE IF i < Len(text) /\ text[i] = QUOTE /\ text[i + 1] = QUOTE
                      THEN <<QUOTE>> \o un(i + 2)
                      ELSE <<text[i]>> \o un(i + 1)
    IN un(1)

\* path_from_group
path_from_group(group_name) ==
    <<SLASH, QUOTE>> \o EscapeQuotes(group_name) \o <<QUOTE>>

\* path_from_channel
path_from_channel(group_name, channel_name) ==
    <<SLASH, QUOTE>> \o EscapeQuotes(group_name) \o <<QUOTE>>
        \o <<SLASH, QUOTE>> \o EscapeQuotes(channel_name) \o <<QUOTE>>

RootObject == [kind |-> "Root", group |-> <<>>, channel |-> <<>>]
GroupObject(g) == [kind |-> "Group", group |-> g, channel |-> <<>>]
ChannelObject(g, c) == [kind |-> "Channel", group |-> g, channel |-> c]

\* The character of a string at a 1-based index ("" beyond its end)
char_at(input_string, i) ==
    IF i <= Len(input_string) THEN input_string[i] ELSE ""

\* The loop of ObjectPath::parse: Some(components), or None for Err.  cur
\* and nxt are the 1-based indexes of current_char and next_char (beyond
\* the end: None); start = 0 is PathParserState::ComponentStart, start > 0
\* is InComponent with the component starting at that index.
RECURSIVE parse_components(_, _, _, _, _)
parse_components(input_string, start, cur, nxt, components) ==
    IF start = 0
    THEN IF cur > Len(input_string) THEN Some(components)
         ELSE IF char_at(input_string, cur) = SLASH /\ nxt > Len(input_string)
              THEN Some(components)
         ELSE IF char_at(input_string, cur) = SLASH
                 /\ char_at(input_string, nxt) = QUOTE
              THEN parse_components(input_string, cur + 2, nxt + 1, nxt + 2,
                                    components)
         ELSE None
    ELSE IF cur > Len(input_string) THEN None
         ELSE IF char_at(input_string, cur) = QUOTE /\ nxt <= Len(input_string)
                 /\ char_at(input_string, nxt) = QUOTE
              THEN parse_components(input_string, start, nxt + 1, nxt + 2,
                                    components)
         ELSE IF char_at(input_string, cur) = QUOTE
              THEN parse_components(input_string, 0, nxt, nxt + 1,
                                    Append(components,
                                           SubSeq(input_string, start, cur - 1)))
         ELSE parse_components(input_string, start, nxt, nxt + 1, components)

\* The end of ObjectPath::parse: the path of the components found
path_of_components(parsed) ==
    IF parsed = None THEN None
    ELSE CASE Len(Unwrap(parsed)) = 0 -> Some(RootObject)
           [] Len(Unwrap(parsed)) = 1 ->
                 Some(GroupObject(UnescapeQuotes(Unwrap(parsed)[1])))
           [] Len(Unwrap(parsed)) = 2 ->
                 Some(ChannelObject(UnescapeQuotes(Unwrap(parsed)[1]),
                                    UnescapeQuotes(Unwrap(parsed)[2])))
           [] OTHER -> None

\* ObjectPath::parse: Some(path), or None for Err
parse(input_string) ==
    path_of_components(parse_components(input_string, 0, 1, 2, <<>>))

\* ObjectPathCache::get_id
get_id(p2i, object_path) ==
    IF object_path \in DOMAIN p2i THEN Some(p2i[object_path]) ELSE None

\* The registry with path interned as object_path under the next id
intern(reg, path, object_path) ==
    IF object_path = None
    THEN [ok |-> FALSE, reg |-> reg, id |-> 0, created |-> FALSE]
    ELSE [ok |-> TRUE,
          reg |-> [p2i |-> [x \in DOMAIN reg.p2i \cup {path} |->
                              IF x = path THEN Len(reg.i2p) ELSE reg.p2i[x]],
                   i2p |-> Append(reg.i2p, Unwrap(object_path))],
          id |-> Len(reg.i2p), created |-> TRUE]

\* get_or_create_id_internal that takes every path for a new one
get_or_create_id_internal_anew(reg, path) == intern(reg, path, parse(path))

\* ObjectPathCache::get_or_create_id_internal, on the registry
\* [p2i, i2p]: [ok, reg, id, created]
get_or_create_id_internal(reg, path) ==
    IF path \in DOMAIN reg.p2i
    THEN [ok |-> TRUE, reg |-> reg, id |-> reg.p2i[path], created |-> FALSE]
    ELSE intern(reg, path, parse(path))

\* The outcome first of get_or_create_id_internal, with the registry of
\* the outcome second of interning the group
with_group(first, second) == [first EXCEPT !.ok = second.ok, !.reg = second.reg]

\* The second half of get_or_create_id: a new channel path also interns the
\* path of its group
intern_group(first) ==
    IF ~first.ok \/ ~first.created THEN first
    ELSE IF first.reg.i2p[Len(first.reg.i2p)].kind = "Channel"
         THEN with_group(first,
                         get_or_create_id_internal(
                             first.reg,
                             path_from_group(
                                 first.reg.i2p[Len(first.reg.i2p)].group)))
         ELSE first

\* get_or_create_id that interns the path alone
get_or_create_id_alone(reg, path) == get_or_create_id_internal(reg, path)

\* ObjectPathCache::get_or_create_id
get_or_create_id(reg, path) == intern_group(get_or_create_id_internal(reg, path))

----------------------------------------------------------------------------
(* tdms_reader.rs: the metadata of one segment.                            *)
(*                                                                         *)
(* An object record of the wire format is modelled as                      *)
(*   [path, header, index, props]                                          *)
(* where header is the class of the u32 raw-data-index header              *)
(* ("NO_DATA" 0xFFFFFFFF, "MATCHES_PREVIOUS" 0, "FORMAT_CHANGING_SCALER"   *)
(* 0x1269, "DIGITAL_LINE_SCALER" 0x126A, "INDEX" any other value), index   *)
(* is the payload read when the header is "INDEX"                          *)
(*   [data_type, dimension, number_of_values, string_size]                 *)
(* and props is the sequence of the record's properties.                   *)

\* read_raw_data_index: [ok, err, index]
read_raw_data_index(payload) ==
    LET bad(e) == [ok |-> FALSE, err |-> e,
                   index |-> [number_of_values |-> 0, data_type |-> "Void",
                              data_size |-> 0]]
    IN  IF payload.data_type \notin TdsTypes THEN bad("InvalidTypeId")
        ELSE IF payload.dimension # 1 THEN bad("Dimension")
        ELSE IF size(payload.data_type) = None /\ payload.data_type # "String"
             THEN bad("UnsupportedDataType")
        ELSE [ok |-> TRUE, err |-> "",
              index |-> [number_of_values |-> payload.number_of_values,
                         data_type |-> payload.data_type,
                         data_size |->
                            IF size(payload.data_type) # None
                            THEN Unwrap(size(payload.data_type))
                                     * payload.number_of_values
                            ELSE payload.string_size]]

\* SegmentObject::no_data / SegmentObject::with_data
no_data(object_id) == [object_id |-> object_id, raw_data_index |-> None]
with_data(object_id, raw_data_index) ==
    [object_id |-> object_id, raw_data_index |-> Some(raw_data_index)]

\* The element types a property value can have (read_value of properties.rs)
PropertyTypes == {"I8", "I16", "I32", "I64", "U8", "U16", "U32", "U64",
                  "SingleFloat", "DoubleFloat", "String", "TimeStamp"}

\* TdmsProperty::read on a property [name, type, value] of the wire: "ok"
\* or the kind of the error returned
read_property(property) ==
    IF property.type \notin TdsTypes THEN "InvalidTypeId"
    ELSE IF property.type \notin PropertyTypes THEN "UnsupportedPropertyType"
    ELSE "ok"

\* The property list of an object replaced by the property read
push_property_replace(props, object_id, property) ==
    [i \in DOMAIN props \cup {object_id} |->
        IF i = object_id THEN <<property>> ELSE props[i]]

\* self.properties.entry(object_id).or_insert_with(Vec::new).push(property)
push_property(props, object_id, property) ==
    [i \in DOMAIN props \cup {object_id} |->
        IF i = object_id
        THEN (IF i \in DOMAIN props THEN props[i] ELSE <<>>) \o <<property>>
        ELSE props[i]]

\* The loop over the properties of a record, on pr = [res, props]
RECURSIVE read_properties(_, _, _)
read_properties(pr, object_id, record_props) ==
    IF record_props = <<>> \/ pr.res # "ok" THEN pr
    ELSE read_properties(
             IF read_property(Head(record_props)) = "ok"
             THEN [pr EXCEPT !.props = push_property(@, object_id,
                                                     Head(record_props))]
             ELSE [pr EXCEPT !.res = read_property(Head(record_props))],
             object_id, Tail(record_props))

\* The end of the per-record step: the segment object is pushed and the
\* properties of the record read, with outcome pr
finish_record(st, rec, created, sobj, arena, cache, pr) ==
    [st EXCEPT !.res = pr.res,
               !.reg = created.reg,
               !.arena = arena,
               !.cache = cache,
               !.objs = Append(st.objs, sobj),
               !.props = pr.props,
               !.log = Append(st.log,
                              [segment |-> st.seg,
                               object_id |-> created.id,
                               header |-> rec.header,
                               raw_data_index |-> sobj.raw_data_index,
                               props |-> rec.props])]

\* The per-record step of read_object_metadata on the reader state
\* st = [res, seg, reg, props, arena, cache, objs, log], once the path of
\* the record is interned with outcome created; res is "ok", the kind of
\* the error returned, or "panic"; seg is the number of the segment.
read_interned_record(st, rec, created) ==
    LET object_id == created.id
        cached == ObjectMapGet(st.cache, object_id)
        read == read_raw_data_index(rec.index)
        new_index_id == Len(st.arena)
        done(sobj, arena, cache) ==
            finish_record(st, rec, created, sobj, arena, cache,
                          read_properties([res |-> "ok", props |-> st.props],
                                          object_id, rec.props))
    IN  IF ~created.ok THEN [st EXCEPT !.res = "InvalidObjectPath"]
        ELSE CASE rec.header = "NO_DATA" ->
                    done(no_data(object_id), st.arena, st.cache)
               [] rec.header = "MATCHES_PREVIOUS" ->
                    IF cached # None
                    THEN done(with_data(object_id, Unwrap(cached)),
                              st.arena, st.cache)
                    ELSE [st EXCEPT !.res = "NoPreviousRawDataIndex",
                                    !.log = Append(@, [segment |-> st.seg,
                                                       object_id |-> object_id,
                                                       header |-> rec.header,
                                                       raw_data_index |-> None,
                                                       props |-> <<>>])]
               [] rec.header \in {"FORMAT_CHANGING_SCALER",
                                  "DIGITAL_LINE_SCALER"} ->
                    [st EXCEPT !.res = "panic",
                               !.log = Append(@, [segment |-> st.seg,
                                                  object_id |-> object_id,
                                                  header |-> rec.header,
                                                  raw_data_index |-> None,
                                                  props |-> <<>>])]
               [] OTHER ->
                    IF ~read.ok THEN [st EXCEPT !.res = read.err]
                    ELSE done(with_data(object_id, new_index_id),
                              Append(st.arena, read.index),
                              ObjectMapSet(st.cache, object_id, new_index_id))

\* A byte sequence that is not UTF-8, as an element of a string
NOT_UTF8 == "<FF>"

\* String::from_utf8 in read_string: whether the bytes decode
valid_utf8(string_bytes) ==
    \A i \in 1..Len(string_bytes) : string_bytes[i] # NOT_UTF8

\* The per-record step of read_object_metadata
read_object_record(st, rec) ==
    IF ~valid_utf8(rec.path) THEN [st EXCEPT !.res = "Utf8"]
    ELSE read_interned_record(st, rec, get_or_create_id(st.reg, rec.path))

\* read_object_metadata: the records in order, stopping at the first error
RECURSIVE read_object_metadata(_, _)
read_object_metadata(st, records) ==
    IF records = <<>> \/ st.res # "ok" THEN st
    ELSE read_object_metadata(read_object_record(st, Head(records)),
                              Tail(records))

\* The second loop of merge_objects with every new object pushed
merge_new_objects_pushed(merged_objects, indexes, new_objects) ==
    merged_objects \o new_objects

\* ObjectMerger::merge_objects with Some(prev_objs): [objects, object_indexes]
RECURSIVE merge_new_objects(_, _, _)
merge_new_objects(merged_objects, indexes, new_objects) ==
    IF new_objects = <<>> THEN merged_objects
    ELSE LET obj == Head(new_objects)
             i == ObjectMapGet(indexes, obj.object_id)
         IN merge_new_objects(
                IF i # None
                THEN [merged_objects EXCEPT ![Unwrap(i) + 1] = obj]
                ELSE Append(merged_objects, obj),
                indexes, Tail(new_objects))

RECURSIVE index_objects(_, _, _)
index_objects(indexes, prev_objs, i) ==
    IF i > Len(prev_objs) THEN indexes
    ELSE index_objects(ObjectMapSet(indexes, prev_objs[i].object_id, i - 1),
                       prev_objs, i + 1)

merge_objects(indexes, previous_segment_objects, new_objects) ==
    IF previous_segment_objects # None
    THEN LET prev_objs == Unwrap(previous_segment_objects)
             filled == index_objects(ObjectMapClear(indexes), prev_objs, 1)
         IN [objects |-> merge_new_objects(prev_objs, filled, new_objects),
             object_indexes |-> filled]
    ELSE [objects |-> new_objects, object_indexes |-> indexes]

\* The object list of a segment without metadata, with nothing taken over
reuse_objects_none(previous_segment_objects) == <<>>

\* The object list of a segment without metadata: a copy of the list of the
\* last segment, the empty list if there is none
reuse_objects(previous_segment_objects) ==
    IF previous_segment_objects # None
    THEN Unwrap(previous_segment_objects)
    ELSE <<>>

\* ChannelDataIndex::from_segment_index
from_segment_index(index) ==
    [data_type |-> index.data_type, number_of_values |-> index.number_of_values]

\* update_with_segment_index with the type check left out
update_unchecked(self, index) ==
    Some([self EXCEPT !.number_of_values = @ + index.number_of_values])

\* update_with_segment_index that takes the type of the latest segment
update_retyped(self, index) ==
    Some([data_type |-> index.data_type,
          number_of_values |-> self.number_of_values + index.number_of_values])

\* ChannelDataIndex::update_with_segment_index: Some(updated), None for Err
update_with_segment_index(self, index) ==
    IF index.data_type # self.data_type THEN None
    ELSE Some([self EXCEPT !.number_of_values = @ + index.number_of_values])

\* TdmsReader::update_data_indexes: [ok, map]
RECURSIVE update_data_indexes(_, _, _)
update_data_indexes(map, arena, segment_objects) ==
    IF segment_objects = <<>> THEN [ok |-> TRUE, map |-> map]
    ELSE LET segment_obj == Head(segment_objects)
         IN IF segment_obj.raw_data_index = None
            THEN update_data_indexes(map, arena, Tail(segment_objects))
            ELSE LET segment_raw_data_index ==
                         arena[Unwrap(segment_obj.raw_data_index) + 1]
                     existing == ObjectMapGet(map, segment_obj.object_id)
                 IN IF existing # None
                    THEN LET updated == update_with_segment_index(
                                            Unwrap(existing), segment_raw_data_index)
                         IN IF updated = None THEN [ok |-> FALSE, map |-> map]
                            ELSE update_data_indexes(
                                     ObjectMapSet(map, segment_obj.object_id,
                                                  Unwrap(updated)),
                                     arena, Tail(segment_objects))
                    ELSE update_data_indexes(
                             ObjectMapSet(map, segment_obj.object_id,
                                          from_segment_index(segment_raw_data_index)),
                             arena, Tail(segment_objects))

----------------------------------------------------------------------------
(* The byte stream.  The metadata of a segment is modelled by its records; *)
(* the raw data is the bytes of the stream at their absolute positions.    *)
(* Every position below 256 holds a different byte, so that a read at a    *)
(* wrong position is seen in the values.                                   *)

FileByte(p) == (p * 37 + 11) % 256

\* The bytes [p, p + n) of the stream
FileBytes(p, n) == [i \in 1..n |-> FileByte(p + i - 1)]

Reverse(s) == [i \in 1..Len(s) |-> s[Len(s) + 1 - i]]

\* Size in bytes of a NativeTypeId (the Rust type the buffer holds)
native_size(kind) ==
    CASE kind \in {"I8", "U8"} -> 1
      [] kind \in {"I16", "U16"} -> 2
      [] kind \in {"I32", "U32", "F32"} -> 4
      [] kind \in {"I64", "U64", "F64"} -> 8
      [] kind = "Timestamp" -> 16

\* One decoded element: the bit pattern of the value, most significant byte
\* first (for a timestamp: seconds, then second_fractions).  wire is the
\* element's bytes in stream order.
decode(kind, big_endian, wire) ==
    IF kind = "Timestamp"
    THEN IF big_endian
         THEN SubSeq(wire, 1, 8) \o SubSeq(wire, 9, 16)
         ELSE Reverse(SubSeq(wire, 9, 16)) \o Reverse(SubSeq(wire, 1, 8))
    ELSE IF big_endian THEN wire ELSE Reverse(wire)

\* NativeType::read_values on a slice: num_values elements decoded from
\* source (the bytes the reader yields) into the front of the target.
read_values(kind, big_endian, source, num_values) ==
    LET sz == native_size(kind)
    IN [j \in 1..num_values |->
           decode(kind, big_endian, SubSeq(source, (j - 1) * sz + 1, j * sz))]

\* The element Vec::resize fills with: 0, 0.0 or Timestamp::new(0, 0)
zero_value(kind) == [i \in 1..native_size(kind) |-> 0]

\* NativeType::read_values of types.rs, on a Vec: [target, consumed].  The
\* integer and float kinds resize the Vec by num_values and read into the
\* new elements; Timestamp resizes it by num_values and then pushes every
\* timestamp it reads.
read_values_vec(kind, big_endian, target_buffer, source, num_values) ==
    LET original_length == Len(target_buffer)
        new_length == original_length + num_values
        resized == [i \in 1..new_length |->
                       IF i <= original_length THEN target_buffer[i]
                       ELSE zero_value(kind)]
        sz == native_size(kind)
        values == [j \in 1..num_values |->
                      decode(kind, big_endian,
                             SubSeq(source, (j - 1) * sz + 1, j * sz))]
    IN [target |-> IF kind = "Timestamp"
                   THEN resized \o values
                   ELSE [i \in 1..new_length |->
                            IF i <= original_length THEN resized[i]
                            ELSE values[i - original_length]],
        consumed |-> num_values * sz]

\* A buffer element: None while not written, Some(value) once written
Unspecified == <<-1>>

\* The buffer with values written from index at (0-based) on
WriteAt(buf, at, values) ==
    [i \in 1..Len(buf) |->
        IF i > at /\ i <= at + Len(values) THEN Some(values[i - at]) ELSE buf[i]]

\* Once the scan is over, SeekFrom::Current with the distance from where
\* the scan left the stream, in place of SeekFrom::Start
SeekFromScanEnd(cur, p) == IF file_len < 0 THEN p ELSE cur + (p - file_len)

\* SeekFrom::Start
SeekStart(cur, p) == p

----------------------------------------------------------------------------
(* interleaved.rs *)

\* InterleavedReader::read that leaves the channel's offset out
interleaved_read_unshifted(ir, buf_len) ==
    LET total_bytes == (ir.type_size * Len(ir.bytes)) \div ir.chunk_width
        num_bytes_to_read == Min(buf_len, total_bytes - ir.position)
    IN [out |-> [i \in 1..num_bytes_to_read |->
                    LET position == (i - 1) + ir.position
                        type_idx == position \div ir.type_size
                        type_offset == position % ir.type_size
                    IN ir.bytes[type_idx * ir.chunk_width + type_offset + 1]],
        ir |-> [ir EXCEPT !.position = @ + num_bytes_to_read]]

\* InterleavedReader::read that leaves the position where it was
interleaved_read_rewound(ir, buf_len) ==
    LET total_bytes == (ir.type_size * Len(ir.bytes)) \div ir.chunk_width
        num_bytes_to_read == Min(buf_len, total_bytes - ir.position)
    IN [out |-> [i \in 1..num_bytes_to_read |->
                    LET position == (i - 1) + ir.position
                        type_idx == position \div ir.type_size
                        type_offset == position % ir.type_size
                    IN ir.bytes[ir.offset + type_idx * ir.chunk_width
                                    + type_offset + 1]],
        ir |-> ir]

\* InterleavedReader::new
InterleavedReader(bytes, chunk_width, type_size, offset) ==
    [bytes |-> bytes, chunk_width |-> chunk_width, type_size |-> type_size,
     offset |-> offset, position |-> 0]

\* InterleavedReader::read with a buffer of buf_len bytes, on the reader
\* ir = [bytes, chunk_width, type_size, offset, position]: [out, ir]
interleaved_read(ir, buf_len) ==
    LET total_bytes == (ir.type_size * Len(ir.bytes)) \div ir.chunk_width
        num_bytes_to_read == Min(buf_len, total_bytes - ir.position)
    IN [out |-> [i \in 1..num_bytes_to_read |->
                    LET position == (i - 1) + ir.position
                        type_idx == position \div ir.type_size
                        type_offset == position % ir.type_size
                    IN ir.bytes[ir.offset + type_idx * ir.chunk_width
                                    + type_offset + 1]],
        ir |-> [ir EXCEPT !.position = @ + num_bytes_to_read]]

----------------------------------------------------------------------------
(* segment.rs: the data of one channel in one segment.                     *)
(*                                                                         *)
(* An extraction works on x = [res, buf, cursor, io, seeks, n]: res is     *)
(* "ok", the kind of the error returned, or "panic"; buf is the caller's   *)
(* whole buffer, of which the extraction is handed the slice that starts   *)
(* at base; io counts the seeks and reads issued on the stream; seeks is   *)
(* the log of the positions sought; n is the number of values returned.    *)

\* The first data-bearing entry of channel_id in objects (0 if none)
RECURSIVE first_with_data(_, _, _)
first_with_data(objects, channel_id, i) ==
    IF i > Len(objects) THEN 0
    ELSE IF objects[i].raw_data_index # None /\ objects[i].object_id = channel_id
         THEN i
         ELSE first_with_data(objects, channel_id, i + 1)

\* channel_offset never advanced
channel_offset_zero(objects, arena, k) == 0

\* channel_offset when the loop of read_contiguous_channel_data reaches
\* entry k: the data_size of the data-bearing entries before it
RECURSIVE channel_offset_at(_, _, _)
channel_offset_at(objects, arena, k) ==
    IF k <= 1 THEN 0
    ELSE channel_offset_at(objects, arena, k - 1)
         + (IF objects[k - 1].raw_data_index # None
            THEN arena[Unwrap(objects[k - 1].raw_data_index) + 1].data_size
            ELSE 0)

\* One repetition of the target channel in read_contiguous_channel_data
contiguous_repetition(seg, x, base, kind, big_endian, channel_offset, number_of_values, repeat_idx) ==
    LET data_offset == repeat_idx * seg.data_size
        buffer_offset == repeat_idx * number_of_values
        sought == SeekStart(x.cursor, seg.data_position + data_offset + channel_offset)
        slice_len == Len(x.buf) - base
        wanted == number_of_values * native_size(kind)
        available == IF file_len > sought THEN file_len - sought ELSE 0
        seeked == [x EXCEPT !.cursor = sought, !.io = @ + 1,
                            !.seeks = Append(@, sought)]
    IN  IF buffer_offset > slice_len \/ number_of_values > slice_len - buffer_offset
        THEN [seeked EXCEPT !.res = "panic"]
        ELSE IF wanted > available
        THEN [seeked EXCEPT !.res = "Io", !.io = @ + 1,
                            !.cursor = sought + available,
                            !.buf = WriteAt(x.buf, base + buffer_offset,
                                            [j \in 1..number_of_values |-> Unspecified])]
        ELSE [seeked EXCEPT !.io = @ + 1,
                            !.cursor = sought + wanted,
                            !.buf = WriteAt(x.buf, base + buffer_offset,
                                            read_values(kind, big_endian,
                                                        FileBytes(sought, wanted),
                                                        number_of_values))]

RECURSIVE contiguous_repetitions(_, _, _, _, _, _, _, _)
contiguous_repetitions(seg, x, base, kind, big_endian, channel_offset, number_of_values, repeat_idx) ==
    IF x.res # "ok" THEN x
    ELSE IF repeat_idx >= seg.repetitions
         THEN [x EXCEPT !.n = seg.repetitions * number_of_values]
         ELSE contiguous_repetitions(
                  seg,
                  contiguous_repetition(seg, x, base, kind, big_endian,
                                        channel_offset, number_of_values, repeat_idx),
                  base, kind, big_endian, channel_offset, number_of_values,
                  repeat_idx + 1)

\* TdmsSegment::read_contiguous_channel_data
read_contiguous_channel_data(seg, arena, channel_id, kind, big_endian, x, base) ==
    LET k == first_with_data(seg.objects, channel_id, 1)
    IN  IF k = 0 THEN [x EXCEPT !.n = 0]
        ELSE contiguous_repetitions(
                 seg, x, base, kind, big_endian,
                 channel_offset_at(seg.objects, arena, k),
                 arena[Unwrap(seg.objects[k].raw_data_index) + 1].number_of_values,
                 0)

\* The first loop of read_interleaved_channel_data with the lengths of the
\* objects not compared
RECURSIVE interleaved_params_unchecked(_, _, _, _, _)
interleaved_params_unchecked(objects, arena, channel_id, i, p) ==
    IF i > Len(objects) \/ p.res # "ok" THEN p
    ELSE IF objects[i].raw_data_index = None
         THEN interleaved_params_unchecked(objects, arena, channel_id, i + 1, p)
         ELSE LET raw_data_index == arena[Unwrap(objects[i].raw_data_index) + 1]
                  type_size == size(raw_data_index.data_type)
              IN IF type_size = None
                 THEN [p EXCEPT !.res = "UnsizedInterleaved"]
                 ELSE interleaved_params_unchecked(
                          objects, arena, channel_id, i + 1,
                          [res |-> "ok",
                           length |-> IF p.length = None
                                      THEN Some(raw_data_index.number_of_values)
                                      ELSE p.length,
                           channel_params |->
                               IF objects[i].object_id = channel_id
                               THEN Some([type_size |-> Unwrap(type_size),
                                          channel_offset |-> p.chunk_width])
                               ELSE p.channel_params,
                           chunk_width |-> p.chunk_width + Unwrap(type_size)])

\* The first loop of read_interleaved_channel_data on
\* p = [res, length, channel_params, chunk_width]
RECURSIVE interleaved_params(_, _, _, _, _)
interleaved_params(objects, arena, channel_id, i, p) ==
    IF i > Len(objects) \/ p.res # "ok" THEN p
    ELSE IF objects[i].raw_data_index = None
         THEN interleaved_params(objects, arena, channel_id, i + 1, p)
         ELSE LET raw_data_index == arena[Unwrap(objects[i].raw_data_index) + 1]
                  type_size == size(raw_data_index.data_type)
              IN IF type_size = None
                 THEN [p EXCEPT !.res = "UnsizedInterleaved"]
                 ELSE IF p.length # None
                         /\ raw_data_index.number_of_values # Unwrap(p.length)
                 THEN [p EXCEPT !.res = "InterleavedLengths"]
                 ELSE interleaved_params(
                          objects, arena, channel_id, i + 1,
                          [res |-> "ok",
                           length |-> IF p.length = None
                                      THEN Some(raw_data_index.number_of_values)
                                      ELSE p.length,
                           channel_params |->
                               IF objects[i].object_id = channel_id
                               THEN Some([type_size |-> Unwrap(type_size),
                                          channel_offset |-> p.chunk_width])
                               ELSE p.channel_params,
                           chunk_width |-> p.chunk_width + Unwrap(type_size)])

\* One repetition of read_interleaved_channel_data
interleaved_repetition(seg, x, base, kind, big_endian, p, repeat_idx) ==
    LET length == Unwrap(p.length)
        params == Unwrap(p.channel_params)
        data_offset == repeat_idx * seg.data_size
        buffer_offset == repeat_idx * length
        chunk_len == length * p.chunk_width
        sought == SeekStart(x.cursor, seg.data_position + data_offset)
        slice_len == Len(x.buf) - base
        wanted == length * native_size(kind)
        available == IF file_len > sought THEN file_len - sought ELSE 0
        seeked == [x EXCEPT !.cursor = sought, !.io = @ + 1,
                            !.seeks = Append(@, sought)]
        ir == [bytes |-> FileBytes(sought, chunk_len),
               chunk_width |-> p.chunk_width,
               type_size |-> params.type_size,
               offset |-> params.channel_offset,
               position |-> 0]
    IN  IF chunk_len > available
        THEN [seeked EXCEPT !.res = "Io", !.io = @ + 1,
                            !.cursor = sought + available]
        ELSE IF buffer_offset > slice_len \/ length > slice_len - buffer_offset
        THEN [seeked EXCEPT !.res = "panic", !.io = @ + 1,
                            !.cursor = sought + chunk_len]
        ELSE IF wanted > 0 /\ p.chunk_width = 0
        THEN [seeked EXCEPT !.res = "panic", !.io = @ + 1]
        ELSE LET got == IF wanted = 0 THEN <<>>
                        ELSE interleaved_read(ir, wanted).out
             IN IF Len(got) < wanted
                THEN [seeked EXCEPT !.res = "Io", !.io = @ + 1,
                                    !.cursor = sought + chunk_len,
                                    !.buf = WriteAt(x.buf, base + buffer_offset,
                                                    [j \in 1..length |-> Unspecified])]
                ELSE [seeked EXCEPT !.io = @ + 1,
                                    !.cursor = sought + chunk_len,
                                    !.buf = WriteAt(x.buf, base + buffer_offset,
                                                    read_values(kind, big_endian,
                                                                got, length))]

RECURSIVE interleaved_repetitions(_, _, _, _, _, _, _)
interleaved_repetitions(seg, x, base, kind, big_endian, p, repeat_idx) ==
    IF x.res # "ok" THEN x
    ELSE IF repeat_idx >= seg.repetitions
         THEN [x EXCEPT !.n = Unwrap(p.length) * seg.repetitions]
         ELSE interleaved_repetitions(
                  seg,
                  interleaved_repetition(seg, x, base, kind, big_endian, p, repeat_idx),
                  base, kind, big_endian, p, repeat_idx + 1)

\* TdmsSegment::read_interleaved_channel_data
read_interleaved_channel_data(seg, arena, channel_id, kind, big_endian, x, base) ==
    LET p == interleaved_params(seg.objects, arena, channel_id, 1,
                                [res |-> "ok", length |-> None,
                                 channel_params |-> None, chunk_width |-> 0])
    IN  IF p.res # "ok" THEN [x EXCEPT !.res = p.res]
        ELSE IF p.channel_params # None /\ p.length # None
             THEN interleaved_repetitions(seg, x, base, kind, big_endian, p, 0)
             ELSE [x EXCEPT !.n = 0]

\* TdmsSegment::read_channel_data
segment_read_channel_data(seg, arena, channel_id, kind, x, base) ==
    IF has_flag(seg.toc_mask, TocInterleavedData)
    THEN read_interleaved_channel_data(seg, arena, channel_id, kind,
                                       has_flag(seg.toc_mask, TocBigEndian), x, base)
    ELSE read_contiguous_channel_data(seg, arena, channel_id, kind,
                                      has_flag(seg.toc_mask, TocBigEndian), x, base)

----------------------------------------------------------------------------
(* tdms_reader.rs: the scan of the segments (TdmsFile::new, read_metadata, *)
(* read_segments, read_segment, read_segment_metadata).                    *)

lead_in_length == 28

\* Chunk byte width of a segment: the data_size handed to TdmsSegment::new
RECURSIVE chunk_width(_, _)
chunk_width(objects, arena) ==
    IF objects = <<>> THEN 0
    ELSE (IF Head(objects).raw_data_index # None
          THEN arena[Unwrap(Head(objects).raw_data_index) + 1].data_size
          ELSE 0)
         + chunk_width(Tail(objects), arena)

\* Chunk repetitions with a chunk that has begun counted as a whole one
repetitions_rounded_up(data_position, next_segment_position, data_size) ==
    IF data_size = 0 THEN 0
    ELSE (next_segment_position - data_position + data_size - 1) \div data_size

\* Chunk repetitions of a segment: the repetitions handed to TdmsSegment::new
repetitions(data_position, next_segment_position, data_size) ==
    IF data_size = 0 THEN 0
    ELSE (next_segment_position - data_position) \div data_size

\* TdmsSegment::new
TdmsSegment(toc_mask, data_position, next_segment_position, objects, data_size, reps) ==
    [toc_mask |-> toc_mask,
     data_position |-> data_position,
     next_segment_position |-> next_segment_position,
     objects |-> objects,
     data_size |-> data_size,
     repetitions |-> reps]

\* The match of read_segments on what read_segment returned, with an error
\* skipped and the scan carried on
next_step_skip(result) ==
    CASE result = "Err" -> "scan"
      [] result = "None" -> "open"
      [] result = "Some" -> "scan"
      [] OTHER -> "panic"

\* The match of read_segments on what read_segment returned: Err(e) returns
\* the error, Ok(None) breaks out of the loop, Ok(Some(segment)) goes on to
\* the next segment (a panic unwinds)
next_step(result) ==
    CASE result = "Err" -> "failed"
      [] result = "None" -> "open"
      [] result = "Some" -> "scan"
      [] OTHER -> "panic"

\* A read_segment call: where it started, the tag bytes the stream gave it
\* (tag_ok: they are 54 44 53 6d) and what it returned
Tried(position, tag_bytes, tag_ok, result) ==
    [position |-> position, tag_bytes |-> tag_bytes, tag_ok |-> tag_ok,
     result |-> result]

NoRead == [status |-> "none", channel |-> 0, kind |-> "", buf |-> <<>>,
           offset |-> 0, io |-> 0, seeks |-> <<>>, blocks |-> <<>>,
           cursor0 |-> 0, cursor |-> 0]

EmptyMap == [x \in {} |-> 0]

\* No function of the crate has been called directly
NoCall == [fn |-> "none", args |-> <<>>, result |-> <<>>, from |-> <<>>]

Init ==
    /\ pc = "scan"
    /\ err = ""
    /\ cursor = 0
    /\ file_len = -1
    /\ path_to_id = EmptyMap
    /\ id_to_path = <<>>
    /\ properties = EmptyMap
    /\ data_indexes = <<>>
    /\ raw_data_index_cache = <<>>
    /\ segments = <<>>
    /\ channel_data_index_map = <<>>
    /\ object_indexes = <<>>
    /\ record_log = <<>>
    /\ rd = NoRead
    /\ last_read = None
    /\ scan_log = <<>>
    /\ lib_call = NoCall

\* What is kept of the history when open fails: the records of the object
\* of the last record that supplied an index, and that last record
FailedLog(log) ==
    IF log = <<>> THEN log
    ELSE LET last == log[Len(log)]
             RECURSIVE keep(_)
             keep(i) == IF i > Len(log) THEN <<>>
                        ELSE (IF i = Len(log)
                                 \/ (log[i].object_id = last.object_id
                                     /\ log[i].header = "INDEX")
                              THEN <<log[i]>> ELSE <<>>) \o keep(i + 1)
         IN keep(1)

\* The reader is dropped: open returned an error (or panicked)
DropReader(outcome, kind, log) ==
    /\ pc' = outcome
    /\ err' = kind
    /\ cursor' = 0
    /\ path_to_id' = EmptyMap
    /\ id_to_path' = <<>>
    /\ properties' = EmptyMap
    /\ data_indexes' = <<>>
    /\ raw_data_index_cache' = <<>>
    /\ segments' = <<>>
    /\ channel_data_index_map' = <<>>
    /\ object_indexes' = <<>>
    /\ record_log' = log
    /\ UNCHANGED <<file_len, rd, last_read, lib_call>>

\* One iteration of the loop of read_segments at a segment whose lead-in
\* and metadata are complete in the stream: read_segment,
\* read_segment_metadata, the seek to the next segment and the push.
ScanSegment(toc_mask, next_segment_offset, raw_data_offset, records) ==
    /\ pc = "scan"
    /\ LET position == cursor
           next_segment_position == position + lead_in_length + next_segment_offset
           raw_data_position == position + lead_in_length + raw_data_offset
           st0 == [res |-> "ok",
                   seg |-> Len(segments) + 1,
                   reg |-> [p2i |-> path_to_id, i2p |-> id_to_path],
                   props |-> properties,
                   arena |-> data_indexes,
                   cache |-> raw_data_index_cache,
                   objs |-> <<>>,
                   log |-> record_log]
           st == IF has_flag(toc_mask, TocMetaData)
                 THEN read_object_metadata(st0, records)
                 ELSE st0
           prev_objs == IF segments = <<>> THEN None
                        ELSE Some(segments[Len(segments)].objects)
           merged == IF has_flag(toc_mask, TocMetaData)
                     THEN IF has_flag(toc_mask, TocNewObjList)
                          THEN [objects |-> st.objs,
                                object_indexes |-> object_indexes]
                          ELSE merge_objects(object_indexes, prev_objs, st.objs)
                     ELSE [objects |-> reuse_objects(prev_objs),
                           object_indexes |-> object_indexes]
           segment_objects == merged.objects
           updated == update_data_indexes(channel_data_index_map, st.arena,
                                          segment_objects)
           data_size == chunk_width(segment_objects, st.arena)
           segment == TdmsSegment(toc_mask, raw_data_position,
                                  next_segment_position, segment_objects, data_size,
                                  repetitions(raw_data_position,
                                              next_segment_position, data_size))
           result == IF st.res = "panic" THEN "panic"
                     ELSE IF st.res # "ok" \/ ~updated.ok THEN "Err"
                     ELSE "Some"
       IN  /\ scan_log' = Append(scan_log, Tried(position, 4, TRUE, result))
           /\ IF st.res = "panic"
              THEN DropReader(next_step("panic"), "", FailedLog(st.log))
              ELSE IF st.res # "ok"
              THEN DropReader(next_step("Err"), st.res, FailedLog(st.log))
              ELSE IF ~updated.ok
              THEN DropReader(next_step("Err"), "DataTypeMismatch", <<>>)
              ELSE
                /\ pc' = next_step("Some")
                /\ err' = ""
                /\ cursor' = SeekStart(cursor, segment.next_segment_position)
                /\ path_to_id' = st.reg.p2i
                /\ id_to_path' = st.reg.i2p
                /\ properties' = st.props
                /\ data_indexes' = st.arena
                /\ raw_data_index_cache' = st.cache
                /\ segments' = Append(segments, segment)
                /\ channel_data_index_map' = updated.map
                /\ object_indexes' = merged.object_indexes
                /\ record_log' = st.log
                /\ UNCHANGED <<file_len, rd, last_read, lib_call>>

\* The iteration of the loop of read_segments that reads 0 bytes where a
\* segment would start: the stream ends missing bytes before the position
\* the last segment named as the start of the next one (0 if it is whole).
ScanEof(missing) ==
    /\ pc = "scan"
    /\ missing >= 0
    /\ IF segments = <<>> THEN missing = 0
       ELSE cursor - missing >= segments[Len(segments)].data_position
    /\ pc' = next_step("None")
    /\ file_len' = cursor - missing
    /\ object_indexes' = <<>>
    /\ scan_log' = Append(scan_log, Tried(cursor, 0, FALSE, "None"))
    /\ UNCHANGED <<err, cursor, path_to_id, id_to_path, properties, data_indexes,
                   raw_data_index_cache, segments, channel_data_index_map,
                   record_log, rd, last_read, lib_call>>

----------------------------------------------------------------------------
(* lib.rs: Channel::data_type, Channel::len, Channel::read_all_data, and   *)
(* tdms_reader.rs: TdmsReader::read_channel_data.                          *)

\* Channel::data_type
data_type(object_id) ==
    LET channel_data_index == ObjectMapGet(channel_data_index_map, object_id)
    IN IF channel_data_index # None THEN Unwrap(channel_data_index).data_type
       ELSE "Void"

\* Channel::len
len(object_id) ==
    LET channel_data == ObjectMapGet(channel_data_index_map, object_id)
    IN IF channel_data # None THEN Unwrap(channel_data).number_of_values
       ELSE 0

\* The object ids of the channels of the registry
ChannelIds ==
    {i \in 0..(Len(id_to_path) - 1) : id_to_path[i + 1].kind = "Channel"}

\* segment.objects.iter().any(|o| o.object_id == channel_id
\*                                && o.raw_data_index.is_some())
has_channel_data(segment, channel_id) ==
    \E i \in 1..Len(segment.objects) :
        /\ segment.objects[i].object_id = channel_id
        /\ segment.objects[i].raw_data_index # None

\* The outcome of a read_all_data call, as the caller may keep it
Outcome(r) == [channel |-> r.channel, kind |-> r.kind, buf_len |-> Len(r.buf),
               status |-> r.status, buf |-> r.buf]

\* The running offset of read_channel_data left where it was
advance_lost(offset, n) == offset

\* offset += <the count the segment extraction returned>
advance(offset, n) == offset + n

\* The loop of read_channel_data with the error of a segment kept for the
\* end and the segments after it read
RECURSIVE read_channel_data_carried_on(_, _)
read_channel_data_carried_on(r, k) ==
    IF k > Len(segments)
    THEN (IF r.status = "none" THEN [r EXCEPT !.status = "ok"] ELSE r)
    ELSE IF ~has_channel_data(segments[k], r.channel)
    THEN read_channel_data_carried_on(r, k + 1)
    ELSE LET x0 == [res |-> "ok", buf |-> r.buf, cursor |-> r.cursor,
                    io |-> r.io, seeks |-> r.seeks, n |-> 0]
             x == IF r.offset > Len(r.buf) THEN [x0 EXCEPT !.res = "panic"]
                  ELSE segment_read_channel_data(segments[k], data_indexes,
                                                 r.channel, r.kind, x0, r.offset)
             after == [r EXCEPT !.buf = x.buf, !.io = x.io, !.seeks = x.seeks,
                                !.cursor = x.cursor]
         IN IF x.res = "ok"
            THEN read_channel_data_carried_on(
                     [after EXCEPT !.offset = advance(@, x.n),
                                   !.blocks = Append(@, [seg |-> k,
                                                         start |-> r.offset,
                                                         n |-> x.n])],
                     k + 1)
            ELSE IF x.res = "panic" THEN [after EXCEPT !.status = x.res]
            ELSE read_channel_data_carried_on(
                     [after EXCEPT !.status = IF @ = "none" THEN x.res ELSE @],
                     k + 1)

\* The loop of TdmsReader::read_channel_data from segment k on, on the call
\* r = [status, channel, kind, buf, offset, io, seeks, blocks, cursor0,
\* cursor]: the call as it returns (or panics)
RECURSIVE read_channel_data(_, _)
read_channel_data(r, k) ==
    IF k > Len(segments) THEN [r EXCEPT !.status = "ok"]
    ELSE IF ~has_channel_data(segments[k], r.channel)
    THEN read_channel_data(r, k + 1)
    ELSE LET x0 == [res |-> "ok", buf |-> r.buf, cursor |-> r.cursor,
                    io |-> r.io, seeks |-> r.seeks, n |-> 0]
             x == IF r.offset > Len(r.buf) THEN [x0 EXCEPT !.res = "panic"]
                  ELSE segment_read_channel_data(segments[k], data_indexes,
                                                 r.channel, r.kind, x0, r.offset)
             after == [r EXCEPT !.buf = x.buf, !.io = x.io, !.seeks = x.seeks,
                                !.cursor = x.cursor]
         IN IF x.res = "ok"
            THEN read_channel_data(
                     [after EXCEPT !.offset = advance(@, x.n),
                                   !.blocks = Append(@, [seg |-> k,
                                                         start |-> r.offset,
                                                         n |-> x.n])],
                     k + 1)
            ELSE [after EXCEPT !.status = x.res]

\* Channel::read_all_data with a buffer of buf_len elements of NativeTypeId
\* kind, none of them written; keep says whether the caller keeps the
\* outcome to compare later calls with
ReadAllData(channel_id, kind, buf_len, keep) ==
    /\ pc = "open"
    /\ channel_id \in ChannelIds
    /\ LET channel_data_index == ObjectMapGet(channel_data_index_map, channel_id)
           expected_native_type ==
               native_type(Unwrap(channel_data_index).data_type)
           call == [NoRead EXCEPT !.channel = channel_id, !.kind = kind,
                                  !.buf = [i \in 1..buf_len |-> None],
                                  !.cursor0 = cursor, !.cursor = cursor]
           returned ==
               IF channel_data_index = None THEN [call EXCEPT !.status = "ok"]
               ELSE IF Unwrap(channel_data_index).number_of_values > buf_len
               THEN [call EXCEPT !.status = "BufferLength"]
               ELSE IF expected_native_type = None
               THEN [call EXCEPT !.status = "UnsupportedType"]
               ELSE IF Unwrap(expected_native_type) # kind
               THEN [call EXCEPT !.status = "BufferType"]
               ELSE read_channel_data(call, 1)
       IN  /\ pc' = IF returned.status = "panic" THEN "panic" ELSE "open"
           /\ rd' = returned
           /\ cursor' = returned.cursor
           /\ last_read' = IF keep THEN Some(returned) ELSE last_read
    /\ UNCHANGED <<err, file_len, path_to_id, id_to_path, properties,
                   data_indexes, raw_data_index_cache, segments,
                   channel_data_index_map, object_indexes, record_log,
                   scan_log, lib_call>>

----------------------------------------------------------------------------
(* lib.rs: the objects of an opened file (TdmsFile::properties, group and  *)
(* groups, Group::name, properties, channel and channels).  A Group or a   *)
(* Channel handle is the object id it holds.                               *)

\* ObjectPathCache::objects with the registry walked from its end
objects_reversed ==
    [i \in 1..Len(id_to_path) |->
        [id |-> Len(id_to_path) - i,
         path |-> id_to_path[Len(id_to_path) - i + 1]]]

\* ObjectPathCache::objects: the (id, path) pairs in id order
objects ==
    [i \in 1..Len(id_to_path) |-> [id |-> i - 1, path |-> id_to_path[i]]]

\* GroupIterator::new and next: the ids TdmsFile::groups yields, in order
groups ==
    LET is_group(o) == o.path.kind = "Group"
        group_objects == SelectSeq(objects, is_group)
    IN [i \in 1..Len(group_objects) |-> group_objects[i].id]

\* Group::name
group_name(object_id) == id_to_path[object_id + 1].group

\* Channel::name
channel_name(object_id) == id_to_path[object_id + 1].channel

\* ChannelIterator::new and next: the ids Group::channels yields, in order
channels(group_id) ==
    LET in_group(o) == /\ o.path.kind = "Channel"
                       /\ o.path.group = group_name(group_id)
        channel_objects == SelectSeq(objects, in_group)
    IN [i \in 1..Len(channel_objects) |-> channel_objects[i].id]

\* TdmsFile::group
group(name) == get_id(path_to_id, path_from_group(name))

\* Group::channel
channel(group_id, name) ==
    get_id(path_to_id, path_from_channel(group_name(group_id), name))

\* Group::properties and Channel::properties
object_properties(object_id) ==
    IF object_id \in DOMAIN properties THEN properties[object_id] ELSE <<>>

\* TdmsFile::properties
file_properties ==
    IF get_id(path_to_id, <<SLASH>>) # None
    THEN object_properties(Unwrap(get_id(path_to_id, <<SLASH>>)))
    ELSE <<>>

----------------------------------------------------------------------------
(* The files the specifications scan.  A file is a sequence of segments    *)
(* laid out as the writer of tests/tdms_read.rs lays them out: the raw     *)
(* data of a segment starts right after its metadata.                      *)

GroupG == <<"G">>
RootPath == <<SLASH>>
GroupPath == path_from_group(GroupG)
ChannelA == path_from_channel(GroupG, <<"A">>)
ChannelB == path_from_channel(GroupG, <<"B">>)

\* raw_data_index(data_type, number_of_values) of the tests
Index(t, c) ==
    [data_type |-> t, dimension |-> 1, number_of_values |-> c, string_size |-> c]

Record(path, header, index) ==
    [path |-> path, header |-> header, index |-> index, props |-> <<>>]

NoData(path) == Record(path, "NO_DATA", Index("Void", 0))
MatchesPrevious(path) == Record(path, "MATCHES_PREVIOUS", Index("Void", 0))
WithIndex(path, index) == Record(path, "INDEX", index)

\* Bytes of a property on the wire: name, type tag and a 4-byte value
PropertyLen(prop) == 4 + Len(prop.name) + 4 + 4

RECURSIVE PropertiesLen(_)
PropertiesLen(props) ==
    IF props = <<>> THEN 0 ELSE PropertyLen(Head(props)) + PropertiesLen(Tail(props))

\* Bytes of an object record on the wire
RecordLen(rec) ==
    4 + Len(rec.path) + 4
      + (IF rec.header = "INDEX"
         THEN 16 + (IF rec.index.data_type = "String" THEN 8 ELSE 0)
         ELSE 0)
      + 4 + PropertiesLen(rec.props)

RECURSIVE RecordsLen(_)
RecordsLen(records) ==
    IF records = <<>> THEN 0 ELSE RecordLen(Head(records)) + RecordsLen(Tail(records))

\* Bytes of the metadata block of a segment (none without the MetaData flag)
MetadataLen(toc_mask, records) ==
    IF has_flag(toc_mask, TocMetaData) THEN 4 + RecordsLen(records) ELSE 0

\* A segment of a file: its ToC, its records and the length of its raw data
Segment(toc_mask, records, raw_len) ==
    [toc_mask |-> toc_mask, records |-> records, raw_len |-> raw_len]

\* TestFile::add_segment followed by the scan of that segment
ScanFileSegment(s) ==
    ScanSegment(s.toc_mask,
                MetadataLen(s.toc_mask, s.records) + s.raw_len,
                MetadataLen(s.toc_mask, s.records),
                s.records)

\* The three ways a segment gets its object list
TocNoMetadata == TocRawData
TocNewList == TocMetaData + TocNewObjList + TocRawData
TocMerge == TocMetaData + TocRawData

----------------------------------------------------------------------------
(* tdms_reader.rs: the scan at a position where the stream does not hold a *)
(* whole lead-in and metadata block.                                       *)

\* The reader state a read_object_metadata call starts from
reader_state ==
    [res |-> "ok",
     seg |-> Len(segments) + 1,
     reg |-> [p2i |-> path_to_id, i2p |-> id_to_path],
     props |-> properties,
     arena |-> data_indexes,
     cache |-> raw_data_index_cache,
     objs |-> <<>>,
     log |-> record_log]

\* The loop over the properties of a record in a stream that ends avail
\* bytes after the property count: the kind of the error returned
RECURSIVE read_truncated_properties(_, _)
read_truncated_properties(record_props, avail) ==
    IF record_props = <<>> THEN "Io"
    ELSE IF avail < 4 + Len(Head(record_props).name) + 4 THEN "Io"
    ELSE IF read_property(Head(record_props)) # "ok"
         THEN read_property(Head(record_props))
    ELSE IF avail < PropertyLen(Head(record_props)) THEN "Io"
    ELSE read_truncated_properties(Tail(record_props),
                                   avail - PropertyLen(Head(record_props)))

\* The per-record step of read_object_metadata in a stream that ends avail
\* bytes into the record, where interning the path has outcome created:
\* each read up to the end of the stream acts as in a whole record, the
\* read that meets the end returns an I/O error
read_truncated_interned(st, rec, avail, created) ==
    LET path_end == 4 + Len(rec.path)
        header_end == path_end + 4
        index_end == header_end
                         + (IF rec.header = "INDEX"
                            THEN 16 + (IF rec.index.data_type = "String"
                                       THEN 8 ELSE 0)
                            ELSE 0)
        read == read_raw_data_index(rec.index)
    IN  IF avail < path_end THEN [st EXCEPT !.res = "Io"]
        ELSE IF ~valid_utf8(rec.path) THEN [st EXCEPT !.res = "Utf8"]
        ELSE IF ~created.ok THEN [st EXCEPT !.res = "InvalidObjectPath"]
        ELSE IF avail < header_end THEN [st EXCEPT !.res = "Io"]
        ELSE IF rec.header = "MATCHES_PREVIOUS"
                /\ ObjectMapGet(st.cache, created.id) = None
             THEN [st EXCEPT !.res = "NoPreviousRawDataIndex"]
        ELSE IF rec.header \in {"FORMAT_CHANGING_SCALER", "DIGITAL_LINE_SCALER"}
             THEN [st EXCEPT !.res = "panic"]
        ELSE IF rec.header = "INDEX" /\ avail >= header_end + 4
                /\ rec.index.data_type \notin TdsTypes
             THEN [st EXCEPT !.res = "InvalidTypeId"]
        ELSE IF rec.header = "INDEX" /\ avail < header_end + 16
             THEN [st EXCEPT !.res = "Io"]
        ELSE IF rec.header = "INDEX" /\ ~read.ok
             THEN [st EXCEPT !.res = read.err]
        ELSE IF avail < index_end + 4 THEN [st EXCEPT !.res = "Io"]
        ELSE [st EXCEPT !.res = read_truncated_properties(
                                    rec.props, avail - (index_end + 4))]

\* read_object_metadata in a stream that ends avail bytes after the object
\* count, before the end of the last record
RECURSIVE read_truncated_metadata(_, _, _)
read_truncated_metadata(st, records, avail) ==
    IF st.res # "ok" THEN st
    ELSE IF records = <<>> THEN [st EXCEPT !.res = "Io"]
    ELSE IF avail >= RecordLen(Head(records))
         THEN read_truncated_metadata(read_object_record(st, Head(records)),
                                      Tail(records),
                                      avail - RecordLen(Head(records)))
    ELSE read_truncated_interned(
             st, Head(records), avail,
             IF valid_utf8(Head(records).path)
             THEN get_or_create_id(st.reg, Head(records).path)
             ELSE [ok |-> FALSE, reg |-> st.reg, id |-> 0, created |-> FALSE])

\* The iteration of the loop of read_segments at a position where the
\* stream holds n more bytes, fewer than the 4 of the tag: read returns
\* them, then 0, on which read_segment returns Ok(None)
ScanShortTag(n) ==
    /\ pc = "scan"
    /\ n \in 1..3
    /\ pc' = next_step("None")
    /\ file_len' = cursor + n
    /\ cursor' = cursor + n
    /\ object_indexes' = <<>>
    /\ scan_log' = Append(scan_log, Tried(cursor, n, FALSE, "None"))
    /\ UNCHANGED <<err, path_to_id, id_to_path, properties, data_indexes,
                   raw_data_index_cache, segments, channel_data_index_map,
                   record_log, rd, last_read, lib_call>>

\* The iteration at a position where the stream holds 4 bytes that are not
\* 54 44 53 6d
ScanBadTag ==
    /\ pc = "scan"
    /\ scan_log' = Append(scan_log, Tried(cursor, 4, FALSE, "Err"))
    /\ DropReader(next_step("Err"), "InvalidSegmentHeader", <<>>)

\* The iteration at a position where the stream holds the tag and ends
\* within the rest of the lead-in (n bytes in all): the read of the ToC
\* mask, the version or an offset returns an I/O error
ScanShortLeadIn(n) ==
    /\ pc = "scan"
    /\ n \in 4..(lead_in_length - 1)
    /\ scan_log' = Append(scan_log, Tried(cursor, 4, TRUE, "Err"))
    /\ DropReader(next_step("Err"), "Io", <<>>)

\* The iteration at a position where the stream holds a lead-in with the
\* MetaData flag and ends avail bytes into the metadata block
ScanShortMetadata(toc_mask, records, avail) ==
    /\ pc = "scan"
    /\ has_flag(toc_mask, TocMetaData)
    /\ avail \in 0..(MetadataLen(toc_mask, records) - 1)
    /\ LET st == IF avail < 4 THEN [reader_state EXCEPT !.res = "Io"]
                 ELSE read_truncated_metadata(reader_state, records, avail - 4)
       IN  /\ scan_log' = Append(scan_log,
                                 Tried(cursor, 4, TRUE,
                                       IF st.res = "panic" THEN "panic" ELSE "Err"))
           /\ IF st.res = "panic"
              THEN DropReader(next_step("panic"), "", FailedLog(st.log))
              ELSE DropReader(next_step("Err"), st.res, FailedLog(st.log))

----------------------------------------------------------------------------
(* Spec: the scan of files of up to MaxSegments contiguous little-endian   *)
(* segments.  A segment declares channel A, channel B, or A then B; its    *)
(* raw data is empty or MaxRawLen bytes, which makes 0, 1, 2 or more       *)
(* chunks depending on the width of the objects.                           *)

RawLens == {0, MaxRawLen}

ScanRecordsA == {NoData(ChannelA), MatchesPrevious(ChannelA),
                 WithIndex(ChannelA, Index("I8", 1)),
                 WithIndex(ChannelA, Index("I16", MaxCount)),
                 WithIndex(ChannelA, Index("Void", 0))}

ScanRecordsB == {NoData(ChannelB), WithIndex(ChannelB, Index("I8", 1))}

ScanRecordLists ==
    {<<>>} \cup {<<a>> : a \in ScanRecordsA} \cup {<<b>> : b \in ScanRecordsB}
    \cup {<<a, b>> : a \in ScanRecordsA, b \in ScanRecordsB}

ScanSegments ==
    {Segment(TocNoMetadata, <<>>, n) : n \in RawLens}
    \cup {Segment(t, r, n) : t \in {TocNewList, TocMerge},
                             r \in ScanRecordLists,
                             n \in RawLens}

Scan ==
    /\ Len(segments) < MaxSegments
    /\ \E s \in ScanSegments : ScanFileSegment(s)

Eof == ScanEof(0)

Next == Scan \/ Eof

Spec == Init /\ [][Next]_vars

----------------------------------------------------------------------------
(* What the claims speak of. *)

ReaderExists == pc \in {"scan", "open"}

\* The raw-data index of entry i of a segment's effective object list
IndexOf(segment, i) == data_indexes[Unwrap(segment.objects[i].raw_data_index) + 1]

\* The entries of a segment that give channel ch a raw-data index
DataEntries(segment, ch) ==
    {i \in 1..Len(segment.objects) :
        /\ segment.objects[i].object_id = ch
        /\ segment.objects[i].raw_data_index # None}

\* The segments in which channel ch carried data
DataSegments(ch) == {k \in 1..Len(segments) : DataEntries(segments[k], ch) # {}}

CarriedData(ch) == DataSegments(ch) # {}

RECURSIVE SumOver(_, _)
SumOver(S, f) ==
    IF S = {} THEN 0
    ELSE LET e == CHOOSE e \in S : TRUE IN f[e] + SumOver(S \ {e}, f)

\* The chunk width and the repetitions of a segment as the format defines
\* them: the byte sizes of the data-bearing objects; the whole chunks that
\* fit between the raw data position and the next segment
FormatChunkWidth(segment) ==
    LET bytes == [i \in 1..Len(segment.objects) |->
                     IF segment.objects[i].raw_data_index = None THEN 0
                     ELSE IndexOf(segment, i).data_size]
    IN SumOver(1..Len(segment.objects), bytes)

FormatRepetitions(segment) ==
    IF FormatChunkWidth(segment) = 0 THEN 0
    ELSE (segment.next_segment_position - segment.data_position)
             \div FormatChunkWidth(segment)

\* The values channel ch has in one chunk of a segment
ChunkCount(segment, ch) ==
    LET count == [i \in DataEntries(segment, ch) |->
                     IndexOf(segment, i).number_of_values]
    IN SumOver(DataEntries(segment, ch), count)

\* The element type of channel ch the first time it carried data
FirstType(ch) ==
    LET k == CHOOSE k \in DataSegments(ch) : \A j \in DataSegments(ch) : k <= j
        i == CHOOSE i \in DataEntries(segments[k], ch) :
                 \A j \in DataEntries(segments[k], ch) : i <= j
    IN IndexOf(segments[k], i).data_type

----------------------------------------------------------------------------
(* C1: for every opened file and every channel, length() is the sum, over  *)
(* the segments that give the channel a raw-data index, of the index's     *)
(* element count times the segment's repetitions.  The scan adds the       *)
(* element count once per segment, whatever the repetitions.               *)
C1_LengthCountsRepetitions ==
    pc = "open" =>
        \A ch \in ChannelIds :
            LET values == [k \in DataSegments(ch) |->
                              ChunkCount(segments[k], ch)
                                  * FormatRepetitions(segments[k])]
            IN len(ch) = SumOver(DataSegments(ch), values)

----------------------------------------------------------------------------
\* Where the scan found segment k
PositionOf(k) == scan_log[k].position

\* The path string the file gave for an object
PathStringOf(object_id) ==
    CHOOSE path \in DOMAIN path_to_id : path_to_id[path] = object_id

\* The bytes of the metadata block of segment k, from the records it
\* declared: the raw_offset of its lead-in in the files scanned here
RECURSIVE LoggedRecordsLen(_, _)
LoggedRecordsLen(k, j) ==
    IF j > Len(record_log) THEN 0
    ELSE (IF record_log[j].segment = k
          THEN 4 + Len(PathStringOf(record_log[j].object_id)) + 4
                 + (IF record_log[j].header = "INDEX" THEN 16 ELSE 0) + 4
          ELSE 0) + LoggedRecordsLen(k, j + 1)

RawOffsetOf(k) ==
    IF has_flag(segments[k].toc_mask, TocMetaData)
    THEN 4 + LoggedRecordsLen(k, 1) ELSE 0

----------------------------------------------------------------------------
(* C7: no reader exists in which a channel carried data with an element    *)
(* type other than the one it had the first time: a segment that gives a   *)
(* channel another element type makes open fail.                           *)
C7_TypeConflictFailsOpen ==
    ReaderExists =>
        \A ch \in ChannelIds : \A k \in DataSegments(ch) :
            \A i \in DataEntries(segments[k], ch) :
                IndexOf(segments[k], i).data_type = FirstType(ch)

\* open failed on a channel redeclared with another element type
C7_Witness == pc = "failed" /\ err = "DataTypeMismatch"

----------------------------------------------------------------------------
(* C8, as stated: element_type() is the type of the first segment in which *)
(* the channel carried data, and element_type() is Void and length() is 0  *)
(* exactly when the channel never carried data.                            *)
C8_Original ==
    pc = "open" =>
        \A ch \in ChannelIds :
            /\ CarriedData(ch) => data_type(ch) = FirstType(ch)
            /\ (data_type(ch) = "Void" /\ len(ch) = 0) <=> ~CarriedData(ch)

\* Every raw-data index channel ch carried is of type Void with no values
OnlyEmptyVoidData(ch) ==
    \A k \in DataSegments(ch) : \A i \in DataEntries(segments[k], ch) :
        /\ IndexOf(segments[k], i).data_type = "Void"
        /\ IndexOf(segments[k], i).number_of_values = 0

(* C8, amended: element_type() is the type of the first segment in which   *)
(* the channel carried data; element_type() is Void and length() is 0      *)
(* exactly when the channel never carried data or every raw-data index it  *)
(* carried declares type Void with zero values.                            *)
C8_TypeFrozenVoidWhenNoData ==
    pc = "open" =>
        \A ch \in ChannelIds :
            /\ CarriedData(ch) => data_type(ch) = FirstType(ch)
            /\ (data_type(ch) = "Void" /\ len(ch) = 0)
                   <=> (~CarriedData(ch) \/ OnlyEmptyVoidData(ch))

\* an opened file with a channel that carried only empty Void data and a
\* channel that carried data of another type in two segments
C8_Witness ==
    /\ pc = "open"
    /\ \E ch \in ChannelIds : /\ CarriedData(ch)
                              /\ OnlyEmptyVoidData(ch)
                              /\ data_type(ch) = "Void"
                              /\ len(ch) = 0
    /\ \E ch \in ChannelIds : /\ Cardinality(DataSegments(ch)) >= 2
                              /\ data_type(ch) # "Void"

----------------------------------------------------------------------------
(* SpecRead: files of up to MaxSegments contiguous little-endian segments  *)
(* are scanned and their channels read, with buffers that are one short    *)
(* of length(), exactly length(), or as long as the values the file holds. *)

ReadRecordLists ==
    {<<WithIndex(ChannelA, Index("I16", 1))>>,
     <<WithIndex(ChannelA, Index("I16", 1)), WithIndex(ChannelB, Index("I8", MaxCount))>>,
     <<NoData(ChannelA), WithIndex(ChannelB, Index("I8", MaxCount))>>,
     <<WithIndex(ChannelA, Index("Boolean", 1))>>}

ReadSegments ==
    {Segment(TocNoMetadata, <<>>, MaxRawLen)}
        \cup {Segment(TocNewList, r, MaxRawLen) : r \in ReadRecordLists}
        \cup {Segment(TocNewList, <<WithIndex(ChannelA, Index("I16", 1))>>, 0)}
        \cup {Segment(TocMerge, <<NoData(ChannelA)>>, MaxRawLen)}

Kinds == {"I8", "I16"}

\* The values the file holds for channel ch
StoredLength(ch) ==
    LET values == [k \in DataSegments(ch) |->
                      ChunkCount(segments[k], ch) * segments[k].repetitions]
    IN SumOver(DataSegments(ch), values)

BufLens(ch) == {n \in {len(ch) - 1, len(ch), StoredLength(ch)} : n >= 0}

ScanRead ==
    /\ Len(segments) < MaxSegments
    /\ \E s \in ReadSegments : ScanFileSegment(s)

Read ==
    \E ch \in ChannelIds, kind \in Kinds, keep \in BOOLEAN :
        \E n \in BufLens(ch) : ReadAllData(ch, kind, n, keep)

NextRead == ScanRead \/ Eof \/ Read

SpecRead == Init /\ [][NextRead]_vars

----------------------------------------------------------------------------
(* What the claims about read_all speak of. *)

Called == rd.status # "none"

\* The call wrote no element and issued no seek or read
NoEffect == /\ \A i \in 1..Len(rd.buf) : rd.buf[i] = None
            /\ rd.io = 0
            /\ rd.seeks = <<>>
            /\ rd.cursor = rd.cursor0

Failed == rd.status \notin {"none", "ok", "panic"}

\* The entry of a segment that gives channel ch its data
DataEntry(segment, ch) ==
    CHOOSE i \in DataEntries(segment, ch) : \A j \in DataEntries(segment, ch) : i <= j

\* The sum of the byte sizes of the data-bearing entries that precede ch
FormatChannelOffset(segment, ch) ==
    LET bytes == [i \in 1..(DataEntry(segment, ch) - 1) |->
                     IF segment.objects[i].raw_data_index = None THEN 0
                     ELSE IndexOf(segment, i).data_size]
    IN SumOver(1..(DataEntry(segment, ch) - 1), bytes)

\* The element of the given kind whose bytes start at position p
ElementAt(p, kind, big_endian) ==
    decode(kind, big_endian, [i \in 1..native_size(kind) |-> FileByte(p + i - 1)])

\* The data segments of ch in file order
RECURSIVE InOrder(_)
InOrder(S) ==
    IF S = {} THEN <<>>
    ELSE LET k == CHOOSE k \in S : \A j \in S : k <= j
         IN <<k>> \o InOrder(S \ {k})

\* What a contiguous segment holds for ch: for each repetition the position
\* sought, and the values from there on
ContiguousSeeks(segment, ch) ==
    [r \in 1..FormatRepetitions(segment) |->
        segment.data_position + (r - 1) * FormatChunkWidth(segment)
            + FormatChannelOffset(segment, ch)]

ContiguousValues(segment, ch, kind) ==
    LET count == IndexOf(segment, DataEntry(segment, ch)).number_of_values
    IN [e \in 1..(FormatRepetitions(segment) * count) |->
           ElementAt(ContiguousSeeks(segment, ch)[((e - 1) \div count) + 1]
                         + ((e - 1) % count) * native_size(kind),
                     kind, has_flag(segment.toc_mask, TocBigEndian))]

RECURSIVE Flatten(_)
Flatten(ss) == IF ss = <<>> THEN <<>> ELSE Head(ss) \o Flatten(Tail(ss))

\* The elements of the buffer that were written, in buffer order
Written(buf) == Flatten([i \in 1..Len(buf) |-> buf[i]])

----------------------------------------------------------------------------
(* C2: a read_all of a channel of a readable type into a buffer of exactly *)
(* length() elements returns with the write offset at length() and never   *)
(* reaches beyond the buffer.  length() ignores the repetitions (C1), so   *)
(* the extraction runs off the buffer or stops short of it.                *)
C2_ExactBufferFilled ==
    (/\ Called
     /\ native_type(data_type(rd.channel)) = Some(rd.kind)
     /\ Len(rd.buf) = len(rd.channel))
        => /\ rd.status = "ok"
           /\ rd.offset = len(rd.channel)

----------------------------------------------------------------------------
(* C3: a read_all visits the segments in file order, reads exactly the     *)
(* segments that give the channel a raw-data index, and starts the block   *)
(* of each where the block of the one before ended; the buffer is written  *)
(* up to the end of the last block and nowhere else.                       *)
C3_BlocksConsecutive ==
    (Called /\ rd.status # "panic") =>
        /\ \A j \in 1..Len(rd.blocks) :
               /\ rd.blocks[j].seg \in DataSegments(rd.channel)
               /\ rd.blocks[j].start = IF j = 1 THEN 0
                                        ELSE rd.blocks[j - 1].start + rd.blocks[j - 1].n
               /\ j > 1 => rd.blocks[j - 1].seg < rd.blocks[j].seg
               /\ \A i \in 1..rd.blocks[j].n : rd.buf[rd.blocks[j].start + i] # None
        /\ (rd.status = "ok" /\ rd.io > 0) =>
               {rd.blocks[j].seg : j \in 1..Len(rd.blocks)} = DataSegments(rd.channel)
        /\ \A i \in 1..Len(rd.buf) : i > rd.offset => rd.buf[i] = None

\* a read that wrote the blocks of two segments, the second after the first
C3_Witness ==
    /\ rd.status = "ok"
    /\ Len(rd.blocks) = 2
    /\ rd.blocks[1].n > 0
    /\ rd.blocks[2].n > 0

----------------------------------------------------------------------------
(* C4: in a contiguous segment, repetition r of a channel is read from     *)
(* data_position + r * chunk_width + channel_offset, channel_offset being  *)
(* the byte sizes of the data-bearing objects before the channel (objects  *)
(* without data add nothing), and the values read are the count elements   *)
(* that start there.                                                       *)
C4_ContiguousPositions ==
    (rd.status = "ok" /\ rd.io > 0) =>
        LET order == InOrder(DataSegments(rd.channel))
        IN /\ rd.seeks = Flatten([j \in 1..Len(order) |->
                                     ContiguousSeeks(segments[order[j]], rd.channel)])
           /\ Written(rd.buf) = Flatten([j \in 1..Len(order) |->
                                           ContiguousValues(segments[order[j]],
                                                            rd.channel, rd.kind)])

\* a read of a channel that follows a data-bearing object in a segment of
\* two chunks
C4_Witness ==
    /\ rd.status = "ok"
    /\ \E k \in DataSegments(rd.channel) :
           /\ FormatChannelOffset(segments[k], rd.channel) > 0
           /\ segments[k].repetitions >= 1
    /\ \E k \in DataSegments(rd.channel) : segments[k].repetitions >= 2
    /\ Written(rd.buf) # <<>>

----------------------------------------------------------------------------
(* C9, as stated: a buffer shorter than the cumulative count, a buffer of  *)
(* another element kind, or an element type with no readable kind makes    *)
(* read_all return an error before it has any effect.                      *)
C9_Original ==
    (/\ Called
     /\ \/ Len(rd.buf) < len(rd.channel)
        \/ native_type(data_type(rd.channel)) # Some(rd.kind))
        => Failed /\ NoEffect

\* The element types the format gives no readable kind
Unreadable == {"Void", "String", "Boolean", "ExtendedFloat", "ExtendedFloatWithUnit",
               "ComplexSingleFloat", "ComplexDoubleFloat", "FixedPoint",
               "DaqmxRawData"}

(* C9, amended: for a channel that carried data, a buffer shorter than the *)
(* cumulative count, a buffer of another element kind, or an element type  *)
(* with no readable kind makes read_all return an error before it has any  *)
(* effect; for a channel that never carried data read_all returns success  *)
(* for any buffer, also without any effect.                                *)
C9_ValidatesBeforeEffect ==
    Called =>
        /\ (/\ CarriedData(rd.channel)
            /\ \/ Len(rd.buf) < len(rd.channel)
               \/ data_type(rd.channel) \in Unreadable
               \/ native_type(data_type(rd.channel)) # Some(rd.kind))
               => Failed /\ NoEffect
        /\ ~CarriedData(rd.channel) => rd.status = "ok" /\ NoEffect

\* a read of a Boolean channel refused though the buffer is long enough
C9_Witness ==
    /\ Failed /\ NoEffect
    /\ data_type(rd.channel) = "Boolean"
    /\ Len(rd.buf) >= len(rd.channel)

----------------------------------------------------------------------------
(* C10: a read_all of a channel of contiguous layout writes what an        *)
(* earlier read_all with the same arguments wrote, whatever calls came in  *)
(* between and wherever they left the stream cursor.                       *)
C10_ReadAllIdempotent ==
    [][(/\ pc = "open"
        /\ last_read # None
        /\ rd'.status # "none"
        /\ rd'.channel = Unwrap(last_read).channel
        /\ rd'.kind = Unwrap(last_read).kind
        /\ Len(rd'.buf) = Len(Unwrap(last_read).buf))
           => Outcome(rd') = Outcome(Unwrap(last_read))]_vars

\* a read that repeats a kept read from another cursor position
C10_Witness ==
    /\ last_read # None
    /\ Outcome(rd) = Outcome(Unwrap(last_read))
    /\ rd.cursor0 # Unwrap(last_read).cursor0
    /\ rd.status = "ok"
    /\ Len(rd.blocks) = 2
    /\ Written(rd.buf) # <<>>

----------------------------------------------------------------------------
(* SpecInterleaved: files of up to MaxSegments interleaved segments, of    *)
(* either byte order and of one or MaxChunks chunks, are scanned and their *)
(* channels read.  The objects of a segment have the same number of values *)
(* per chunk, or one value for the first and MaxCount for the second.      *)

TocInterleaved == TocMetaData + TocNewObjList + TocRawData + TocInterleavedData

\* Bytes of the raw data the records of a segment declare for one chunk
RECURSIVE RawWidth(_)
RawWidth(records) ==
    IF records = <<>> THEN 0
    ELSE (IF Head(records).header = "INDEX"
          THEN Unwrap(size(Head(records).index.data_type))
                   * Head(records).index.number_of_values
          ELSE 0)
         + RawWidth(Tail(records))

InterleavedRecordLists ==
    {<<WithIndex(ChannelA, Index("I16", MaxCount)),
       WithIndex(ChannelB, Index("I8", MaxCount))>>,
     <<NoData(ChannelA), WithIndex(ChannelB, Index("I8", 1))>>,
     <<WithIndex(ChannelA, Index("I16", 1)),
       WithIndex(ChannelB, Index("I8", MaxCount))>>}

InterleavedSegments ==
    {Segment(t, r, n * RawWidth(r)) :
        t \in {TocInterleaved, TocInterleaved + TocBigEndian},
        r \in InterleavedRecordLists, n \in {1, MaxChunks}}

ScanInterleaved ==
    /\ Len(segments) < MaxSegments
    /\ \E s \in InterleavedSegments : ScanFileSegment(s)

ReadInterleaved ==
    \E ch \in ChannelIds, kind \in Kinds :
        ReadAllData(ch, kind, StoredLength(ch), FALSE)

NextInterleaved == ScanInterleaved \/ Eof \/ ReadInterleaved

SpecInterleaved == Init /\ [][NextInterleaved]_vars

\* The row stride of an interleaved segment: the element sizes of its
\* data-bearing objects
RowStride(segment) ==
    LET bytes == [i \in 1..Len(segment.objects) |->
                     IF segment.objects[i].raw_data_index = None THEN 0
                     ELSE Unwrap(size(IndexOf(segment, i).data_type))]
    IN SumOver(1..Len(segment.objects), bytes)

\* offset(c): the element sizes of the data-bearing objects before ch
RowOffset(segment, ch) ==
    LET bytes == [i \in 1..(DataEntry(segment, ch) - 1) |->
                     IF segment.objects[i].raw_data_index = None THEN 0
                     ELSE Unwrap(size(IndexOf(segment, i).data_type))]
    IN SumOver(1..(DataEntry(segment, ch) - 1), bytes)

\* What an interleaved segment holds for ch: element i (from 0) is in row
\* i of the rows of all chunks, each chunk being count rows long
InterleavedValues(segment, ch, kind) ==
    LET count == IndexOf(segment, DataEntry(segment, ch)).number_of_values
    IN [e \in 1..(FormatRepetitions(segment) * count) |->
           ElementAt(segment.data_position + (e - 1) * RowStride(segment)
                         + RowOffset(segment, ch),
                     kind, has_flag(segment.toc_mask, TocBigEndian))]

----------------------------------------------------------------------------
(* C5: in an interleaved segment, element i of a channel is the window of  *)
(* size(c) bytes at row i times the row stride plus offset(c), decoded in  *)
(* the byte order of the segment; offset(c) is the element sizes of the    *)
(* data-bearing objects before the channel and the row stride those of all *)
(* data-bearing objects.                                                   *)
C5_InterleavedWindows ==
    (rd.status = "ok" /\ rd.io > 0) =>
        LET order == InOrder(DataSegments(rd.channel))
        IN Written(rd.buf) = Flatten([j \in 1..Len(order) |->
                                         InterleavedValues(segments[order[j]],
                                                           rd.channel, rd.kind)])

\* a read of the second channel of a big-endian interleaved segment of two
\* chunks of several rows
C5_Witness ==
    /\ rd.status = "ok"
    /\ \E k \in DataSegments(rd.channel) :
           /\ has_flag(segments[k].toc_mask, TocBigEndian)
           /\ has_flag(segments[k].toc_mask, TocInterleavedData)
           /\ RowOffset(segments[k], rd.channel) > 0
           /\ segments[k].repetitions >= 2
           /\ ChunkCount(segments[k], rd.channel) >= 2
    /\ Len(Written(rd.buf)) >= 4

----------------------------------------------------------------------------
\* The data-bearing objects of a segment have the same number of values
LengthsAgree(segment) ==
    \A i, j \in 1..Len(segment.objects) :
        (/\ segment.objects[i].raw_data_index # None
         /\ segment.objects[j].raw_data_index # None)
            => IndexOf(segment, i).number_of_values
                   = IndexOf(segment, j).number_of_values

\* The segments a read_all_data call extracted values from
BlockSegments == {rd.blocks[j].seg : j \in 1..Len(rd.blocks)}

(* C19, as stated: in every reader, the data-bearing objects of a segment  *)
(* with the InterleavedData flag have the same number of values per chunk; *)
(* a file in which they differ makes open fail.                            *)
C19_Original ==
    ReaderExists =>
        \A k \in 1..Len(segments) :
            has_flag(segments[k].toc_mask, TocInterleavedData) =>
                LengthsAgree(segments[k])

(* C19, amended: the lengths of an interleaved segment are compared when a *)
(* channel with data in it is read, not when the file is opened: every     *)
(* interleaved segment a read_all extracts values from has the same number *)
(* of values per chunk on all its data-bearing objects, and a read_all     *)
(* that comes to a segment in which they differ returns an error with the  *)
(* values of the earlier segments written and none of that segment.        *)
C19_LengthsComparedOnRead ==
    (Called /\ rd.status # "panic") =>
        /\ \A k \in BlockSegments :
               has_flag(segments[k].toc_mask, TocInterleavedData)
                   => LengthsAgree(segments[k])
        /\ (rd.status = "ok" /\ rd.io > 0) =>
               \A k \in DataSegments(rd.channel) : LengthsAgree(segments[k])
        /\ rd.status = "InterleavedLengths" =>
               \E k \in DataSegments(rd.channel) :
                   /\ ~LengthsAgree(segments[k])
                   /\ BlockSegments = {h \in DataSegments(rd.channel) : h < k}
                   /\ \A i \in 1..Len(rd.buf) : i > rd.offset => rd.buf[i] = None

\* a read that wrote the values of a first segment and was refused at the
\* second, whose objects differ in length
C19_Witness ==
    /\ rd.status = "InterleavedLengths"
    /\ Len(rd.blocks) = 1
    /\ rd.blocks[1].n > 0
    /\ Written(rd.buf) # <<>>
    /\ ~LengthsAgree(segments[2])

----------------------------------------------------------------------------
(* SpecCache: the scan of files of up to MaxCacheSegments segments whose   *)
(* records give two objects explicit indexes, no data, or the index they   *)
(* had before.                                                             *)

CacheRecordLists ==
    {<<WithIndex(ChannelA, Index("I8", 1))>>,
     <<WithIndex(ChannelA, Index("I8", MaxCount))>>,
     <<NoData(ChannelA)>>,
     <<MatchesPrevious(ChannelA)>>,
     <<WithIndex(ChannelB, Index("I8", 1))>>,
     <<MatchesPrevious(ChannelB)>>,
     <<WithIndex(ChannelA, Index("I8", MaxCount)), MatchesPrevious(ChannelA)>>}

CacheSegments ==
    {Segment(TocNoMetadata, <<>>, 0)}
        \cup {Segment(t, r, 0) : t \in {TocNewList, TocMerge}, r \in CacheRecordLists}

ScanCache ==
    /\ Len(segments) < MaxCacheSegments
    /\ \E s \in CacheSegments : ScanFileSegment(s)

NextCache == ScanCache \/ Eof

SpecCache == Init /\ [][NextCache]_vars

\* The records before record j that gave its object an explicit index
ExplicitBefore(j) ==
    {i \in 1..(j - 1) : /\ record_log[i].object_id = record_log[j].object_id
                        /\ record_log[i].header = "INDEX"}

----------------------------------------------------------------------------
(* C6: an object record with the header "matches previous" refers to the   *)
(* raw-data index of the latest earlier record that gave the same object   *)
(* an explicit index, whatever records and segments came in between; with  *)
(* no such record open fails.                                              *)
C6_MatchesPreviousIsLatestExplicit ==
    \A j \in 1..Len(record_log) :
        record_log[j].header = "MATCHES_PREVIOUS" =>
            IF ExplicitBefore(j) = {}
            THEN /\ pc = "failed"
                 /\ err = "NoPreviousRawDataIndex"
                 /\ j = Len(record_log)
            ELSE LET i == CHOOSE i \in ExplicitBefore(j) :
                              \A h \in ExplicitBefore(j) : h <= i
                 IN /\ record_log[j].raw_data_index = record_log[i].raw_data_index
                    /\ record_log[j].raw_data_index # None

\* an opened file of three segments: the object got an explicit index, then
\* a segment with a new object list declared it without data, then a record
\* asked for the index it had before
C6_Witness ==
    /\ pc = "open"
    /\ Len(segments) = 3
    /\ has_flag(segments[2].toc_mask, TocNewObjList)
    /\ \E i, k, j \in 1..Len(record_log) :
           /\ i < k /\ k < j
           /\ \A e \in {i, k, j} :
                  record_log[e].object_id = record_log[j].object_id
           /\ record_log[i].header = "INDEX"
           /\ record_log[k].header = "NO_DATA"
           /\ record_log[j].header = "MATCHES_PREVIOUS"
           /\ record_log[j].raw_data_index = record_log[i].raw_data_index
           /\ has_channel_data(segments[3], record_log[j].object_id)

----------------------------------------------------------------------------
\* The segment objects the records of segment n declared, in their order
DeclaredIn(log, n) ==
    LET of_segment == SelectSeq(log, LAMBDA e : e.segment = n)
    IN [i \in 1..Len(of_segment) |->
           [object_id |-> of_segment[i].object_id,
            raw_data_index |-> of_segment[i].raw_data_index]]

\* The places of object_id in an object list
PlacesOf(object_list, object_id) ==
    {i \in 1..Len(object_list) : object_list[i].object_id = object_id}

\* The last entry of object_id in an object list that has one
LastOf(object_list, object_id) ==
    object_list[CHOOSE i \in PlacesOf(object_list, object_id) :
                    \A h \in PlacesOf(object_list, object_id) : h <= i]

\* merged is prev with the objects of declared put in: an object prev holds
\* is replaced where it is (where it is last, if prev holds it twice) by its
\* last declaration, and the declarations of the objects prev does not hold
\* follow in their order
IsMergeOf(merged, prev, declared) ==
    LET added == SelectSeq(declared,
                           LAMBDA o : PlacesOf(prev, o.object_id) = {})
    IN /\ Len(merged) = Len(prev) + Len(added)
       /\ \A i \in 1..Len(prev) :
              merged[i] =
                  IF /\ PlacesOf(declared, prev[i].object_id) # {}
                     /\ \A h \in PlacesOf(prev, prev[i].object_id) : h <= i
                  THEN LastOf(declared, prev[i].object_id)
                  ELSE prev[i]
       /\ \A i \in 1..Len(added) : merged[Len(prev) + i] = added[i]

(* C20: the object list of a segment with the MetaData flag and without    *)
(* the NewObjList flag is the list of the segment before it with every     *)
(* object this segment declares again replaced where it was, followed by   *)
(* the objects it declares that the list did not hold, in the order of     *)
(* their declaration; the objects of the list before stay in their order,  *)
(* those not declared again keep their raw-data index, and the list of the *)
(* segment before is left as it was.                                       *)
C20_MergeReplacesInPlace ==
    [][(/\ Len(segments') = Len(segments) + 1
        /\ has_flag(segments'[Len(segments')].toc_mask, TocMetaData)
        /\ ~has_flag(segments'[Len(segments')].toc_mask, TocNewObjList))
       => LET n == Len(segments')
              prev == IF n = 1 THEN <<>> ELSE segments[n - 1].objects
              declared == DeclaredIn(record_log', n)
              merged == segments'[n].objects
          IN /\ IsMergeOf(merged, prev, declared)
             /\ Len(merged) >= Len(prev)
             /\ \A i \in 1..Len(prev) :
                    /\ merged[i].object_id = prev[i].object_id
                    /\ PlacesOf(declared, prev[i].object_id) = {}
                           => merged[i] = prev[i]
             /\ SubSeq(segments', 1, n - 1) = segments]_vars

\* an opened file of three segments: the third declared again the first of
\* the two objects of the second, with another index, and not the other
C20_Witness ==
    /\ pc = "open"
    /\ Len(segments) = 3
    /\ has_flag(segments[3].toc_mask, TocMetaData)
    /\ ~has_flag(segments[3].toc_mask, TocNewObjList)
    /\ Len(segments[2].objects) = 2
    /\ Len(segments[3].objects) = 2
    /\ segments[2].objects[1].object_id # segments[2].objects[2].object_id
    /\ segments[3].objects[1].object_id = segments[2].objects[1].object_id
    /\ segments[3].objects[1].raw_data_index # None
    /\ segments[3].objects[1].raw_data_index # segments[2].objects[1].raw_data_index
    /\ segments[3].objects[2] = segments[2].objects[2]
    /\ Len(DeclaredIn(record_log, 3)) = 1

----------------------------------------------------------------------------
(* C21: the object list of a segment without the MetaData flag is the list *)
(* of the segment before it, entry for entry (same objects, same order,    *)
(* same raw-data indexes); if it is the first segment of the file its list *)
(* is empty, and open does not fail at a segment without metadata: a scan  *)
(* that failed did so at a segment that declared a record.                 *)
C21_NoMetadataReusesList ==
    /\ \A k \in 1..Len(segments) :
           ~has_flag(segments[k].toc_mask, TocMetaData) =>
               segments[k].objects =
                   IF k = 1 THEN <<>> ELSE segments[k - 1].objects
    /\ \A i \in 1..Len(scan_log) :
           scan_log[i].result # "Some" =>
               \/ scan_log[i].result = "None"
               \/ /\ record_log # <<>>
                  /\ record_log[Len(record_log)].segment = i

\* an opened file of three segments: the first without metadata and with an
\* empty list, the third without metadata and with the entries of the
\* second, the first of them with data
C21_Witness ==
    /\ pc = "open"
    /\ Len(segments) = 3
    /\ ~has_flag(segments[1].toc_mask, TocMetaData)
    /\ segments[1].objects = <<>>
    /\ has_flag(segments[2].toc_mask, TocMetaData)
    /\ ~has_flag(segments[3].toc_mask, TocMetaData)
    /\ segments[3].objects # <<>>
    /\ segments[3].objects = segments[2].objects
    /\ segments[3].objects[1].raw_data_index # None

----------------------------------------------------------------------------
(* C23: in the object list of every segment of a reader, whether taken as  *)
(* declared, merged or reused, each object id appears at most once.  The   *)
(* scan pushes one entry per record and the merge pushes every record of   *)
(* an object the list before did not hold, so an object a segment declares *)
(* twice is in its list twice.                                             *)
C23_ObjectsAtMostOnce ==
    ReaderExists =>
        \A k \in 1..Len(segments) :
            \A i, j \in 1..Len(segments[k].objects) :
                segments[k].objects[i].object_id = segments[k].objects[j].object_id
                    => i = j

----------------------------------------------------------------------------
(* SpecMalformed: the scan of files of up to MaxSegments segments that may *)
(* be malformed or cut short: a stream that ends within the tag, the rest  *)
(* of the lead-in, the metadata block or the raw data of a segment, a tag  *)
(* that is not TDSm, and records that are not supported or not             *)
(* consistent.                                                             *)

Property(name, type, value) == [name |-> name, type |-> type, value |-> value]

MalformedRecordLists ==
    {<<WithIndex(ChannelA, Index("I8", 1))>>,
     <<WithIndex(ChannelA, Index("I16", 1))>>,
     <<WithIndex(ChannelA, Index("I8", 1)),
       Record(ChannelB, "FORMAT_CHANGING_SCALER", Index("Void", 0))>>,
     <<Record(ChannelA, "DIGITAL_LINE_SCALER", Index("Void", 0))>>,
     <<WithIndex(ChannelA, [Index("I8", 1) EXCEPT !.dimension = 2])>>,
     <<WithIndex(ChannelA, Index("NoSuchType", 1))>>,
     <<MatchesPrevious(ChannelB)>>,
     <<WithIndex(<<"G">>, Index("I8", 1))>>,
     <<WithIndex(<<SLASH, QUOTE, NOT_UTF8, QUOTE>>, Index("I8", 1))>>,
     <<[NoData(GroupPath) EXCEPT !.props = <<Property(<<"p">>, "I32", 1),
                                             Property(<<"q">>, "Boolean", 1)>>]>>}

MalformedSegments ==
    {Segment(TocNoMetadata, <<>>, MaxRawLen)}
        \cup {Segment(TocNewList, r, n) : r \in MalformedRecordLists, n \in RawLens}

ScanMalformed ==
    /\ Len(segments) < MaxSegments
    /\ \E s \in MalformedSegments : ScanFileSegment(s)

ShortTag ==
    /\ Len(segments) < MaxSegments
    /\ \E n \in 1..3 : ScanShortTag(n)

BadTag ==
    /\ Len(segments) < MaxSegments
    /\ ScanBadTag

ShortLeadIn ==
    /\ Len(segments) < MaxSegments
    /\ \E n \in 4..(lead_in_length - 1) : ScanShortLeadIn(n)

ShortMetadata ==
    /\ Len(segments) < MaxSegments
    /\ \E s \in MalformedSegments :
           \E avail \in 0..(MetadataLen(s.toc_mask, s.records) - 1) :
               ScanShortMetadata(s.toc_mask, s.records, avail)

\* The stream ends at the start of a segment, or within the raw data of the
\* last segment
EofOrShortRawData == \E missing \in 0..MaxRawLen : ScanEof(missing)

NextMalformed ==
    \/ ScanMalformed
    \/ ShortTag
    \/ BadTag
    \/ ShortLeadIn
    \/ ShortMetadata
    \/ EofOrShortRawData

SpecMalformed == Init /\ [][NextMalformed]_vars

\* The position the stream would end at if its last segment were whole
EndOfLastSegment ==
    IF segments = <<>> THEN 0 ELSE segments[Len(segments)].next_segment_position

----------------------------------------------------------------------------
(* C11: where a segment would start, the scan ends cleanly only when the   *)
(* read of the tag returns no byte at all; a stream that ends after 1, 2   *)
(* or 3 tag bytes, or 4 tag bytes other than 54 44 53 6d, make open fail.  *)
(* read_segment returns Ok(None) as soon as a read returns 0, also after   *)
(* it has read 1 to 3 tag bytes.                                           *)
C11_CleanEndOnlyOnZeroBytes ==
    \A i \in 1..Len(scan_log) :
        /\ scan_log[i].result = "None" => scan_log[i].tag_bytes = 0
        /\ (\/ scan_log[i].tag_bytes \in 1..3
            \/ scan_log[i].tag_bytes = 4 /\ ~scan_log[i].tag_ok)
               => pc = "failed" /\ scan_log[i].result = "Err"

----------------------------------------------------------------------------
(* C12: open succeeds only on a stream that ends exactly where its last    *)
(* whole segment says the next one starts; a stream that ends before that, *)
(* within the lead-in, the metadata or the raw data of its last segment,   *)
(* makes open fail.  The scan seeks to the start of the next segment       *)
(* without looking at the length of the stream, so a stream that ends      *)
(* within the raw data is opened.                                          *)
C12_TruncatedSegmentFails ==
    pc = "open" => file_len = EndOfLastSegment

----------------------------------------------------------------------------
(* C13: an object record with the raw-data-index header of a               *)
(* format-changing scaler or a digital-line scaler makes open return a     *)
(* format error and no reader.  read_object_metadata reaches               *)
(* unimplemented!() on these headers: open panics and returns nothing.     *)
C13_DaqmxIndexIsAnError ==
    \A j \in 1..Len(record_log) :
        record_log[j].header \in {"FORMAT_CHANGING_SCALER", "DIGITAL_LINE_SCALER"}
            => /\ pc = "failed"
               /\ err # ""

----------------------------------------------------------------------------
(* C14: an error in the lead-in or the metadata of a segment is what open  *)
(* returns, with no reader; the segment that failed is the last one the    *)
(* scan read, whatever follows it in the stream.                           *)
C14_FirstErrorEndsScan ==
    \A i \in 1..Len(scan_log) :
        scan_log[i].result = "Err" =>
            /\ i = Len(scan_log)
            /\ pc = "failed"
            /\ err # ""
            /\ segments = <<>>
            /\ id_to_path = <<>>
            /\ channel_data_index_map = <<>>
            /\ \A h \in 1..(i - 1) : scan_log[h].result = "Some"

\* open failed with an I/O error in the second segment of the stream
C14_Witness ==
    /\ pc = "failed"
    /\ err = "Io"
    /\ Len(scan_log) = 2
    /\ scan_log[1].result = "Some"
    /\ scan_log[2].result = "Err"
    /\ scan_log[2].position > 0

----------------------------------------------------------------------------
(* SpecObjects: the scan of files of up to MaxObjectSegments segments      *)
(* whose records declare the root, groups and channels, with and without   *)
(* properties: groups before and after their channels, channels of groups  *)
(* that are never declared, an object declared twice in a segment and in   *)
(* several segments, a name that holds a quote.                            *)

GroupH == <<"H">>
GroupQuote == <<QUOTE>>

WithProperties(rec, props) == [rec EXCEPT !.props = props]

PropertyP == Property(<<"p">>, "I32", 1)
PropertyQ == Property(<<"q">>, "String", 2)
PropertyP3 == Property(<<"p">>, "I32", 3)

\* The file of the test iterate_over_objects
TwoGroupsOfTwoChannels ==
    <<NoData(GroupPath),
      WithIndex(ChannelA, Index("I8", 1)),
      WithIndex(ChannelB, Index("I8", 1)),
      NoData(path_from_group(GroupH)),
      WithIndex(path_from_channel(GroupH, <<"A">>), Index("I8", 1)),
      WithIndex(path_from_channel(GroupH, <<"B">>), Index("I8", 1))>>

ObjectRecordLists ==
    {TwoGroupsOfTwoChannels,
     <<WithProperties(NoData(RootPath), <<PropertyP>>)>>,
     <<WithProperties(NoData(ChannelA), <<PropertyP, PropertyQ>>)>>,
     <<WithProperties(NoData(GroupPath), <<PropertyQ>>)>>,
     <<WithProperties(NoData(path_from_channel(GroupH, <<"B">>)), <<PropertyP>>),
       WithProperties(NoData(ChannelA), <<PropertyP3>>)>>,
     <<WithProperties(NoData(ChannelB), <<PropertyP>>),
       WithProperties(NoData(ChannelB), <<PropertyP>>)>>,
     <<NoData(path_from_channel(GroupQuote, <<"A">>))>>}

ObjectSegments ==
    {Segment(TocNoMetadata, <<>>, 0)}
        \cup {Segment(TocNewList, r, 0) : r \in ObjectRecordLists}
        \cup {Segment(TocMerge, <<WithProperties(NoData(ChannelA), <<PropertyQ>>)>>, 0)}

ScanObjects ==
    /\ Len(segments) < MaxObjectSegments
    /\ \E s \in ObjectSegments : ScanFileSegment(s)

NextObjects == ScanObjects \/ Eof

SpecObjects == Init /\ [][NextObjects]_vars

ObjectIds == 0..(Len(id_to_path) - 1)

\* The properties the records of the file declared for an object, in the
\* order the records came
DeclaredProperties(object_id) ==
    Flatten([j \in 1..Len(record_log) |->
                IF record_log[j].object_id = object_id
                THEN record_log[j].props ELSE <<>>])

\* The records that declared an object
Declarations(object_id) ==
    {j \in 1..Len(record_log) : record_log[j].object_id = object_id}

----------------------------------------------------------------------------
(* C15: for every object of an opened file, properties() is the list of    *)
(* the properties the records of all segments declared for it, in segment  *)
(* order and then record order; an object no record declared has the empty *)
(* list.                                                                   *)
C15_PropertiesAccumulateInOrder ==
    pc = "open" =>
        /\ \A id \in ObjectIds :
               /\ object_properties(id) = DeclaredProperties(id)
               /\ Declarations(id) = {} => object_properties(id) = <<>>
        /\ file_properties =
               IF RootPath \in DOMAIN path_to_id
               THEN DeclaredProperties(path_to_id[RootPath]) ELSE <<>>

\* an opened file with an object that got properties in two segments, three
\* or more in all, and a group that no record declared
C15_Witness ==
    /\ pc = "open"
    /\ \E id \in ObjectIds :
           /\ Len(object_properties(id)) >= 3
           /\ \E i, j \in Declarations(id) :
                  /\ record_log[i].segment < record_log[j].segment
                  /\ record_log[i].props # <<>>
                  /\ record_log[j].props # <<>>
                  /\ record_log[i].props # record_log[j].props
    /\ \E id \in ObjectIds :
           /\ id_to_path[id + 1].kind = "Group"
           /\ Declarations(id) = {}
           /\ object_properties(id) = <<>>
    /\ file_properties # <<>>

----------------------------------------------------------------------------
(* What the claims about the listing of objects speak of. *)

Range(seq) == {seq[i] : i \in 1..Len(seq)}

StrictlyIncreasing(seq) == \A a, b \in 1..Len(seq) : a < b => seq[a] < seq[b]

GroupIds == {id \in ObjectIds : id_to_path[id + 1].kind = "Group"}

\* The names groups() yields, and the names the channels() of a group yields
GroupNames == [i \in 1..Len(groups) |-> group_name(groups[i])]
ChannelNames(group_id) ==
    [i \in 1..Len(channels(group_id)) |-> channel_name(channels(group_id)[i])]

\* The objects the records of the file declared, in the order they came
DeclaredObjects ==
    [j \in 1..Len(record_log) |-> id_to_path[record_log[j].object_id + 1]]

\* The file starts as the file of the test iterate_over_objects does
StartsWithTwoGroupsOfTwoChannels ==
    /\ Len(record_log) >= 6
    /\ SubSeq(DeclaredObjects, 1, 6) =
           <<GroupObject(GroupG),
             ChannelObject(GroupG, <<"A">>), ChannelObject(GroupG, <<"B">>),
             GroupObject(GroupH),
             ChannelObject(GroupH, <<"A">>), ChannelObject(GroupH, <<"B">>)>>

----------------------------------------------------------------------------
(* C16: groups() yields the group objects of the registry, each once, in   *)
(* the order of their ids, and the channels() of a group yields the        *)
(* channel objects of the registry that have the group's name, in the      *)
(* order of their ids; a file that declares a group, its two channels, a   *)
(* second group and its two channels lists the two groups and the channels *)
(* of each in that order.                                                  *)
C16_ListingInRegistryOrder ==
    pc = "open" =>
        /\ StrictlyIncreasing(groups)
        /\ Range(groups) = GroupIds
        /\ \A g \in GroupIds :
               /\ StrictlyIncreasing(channels(g))
               /\ Range(channels(g)) =
                      {id \in ChannelIds : id_to_path[id + 1].group = group_name(g)}
        /\ StartsWithTwoGroupsOfTwoChannels =>
               /\ SubSeq(GroupNames, 1, 2) = <<GroupG, GroupH>>
               /\ \A i \in 1..2 : ChannelNames(groups[i]) = <<<<"A">>, <<"B">>>>

\* the file of the test, followed by a segment that declares a channel of a
\* third group
C16_Witness ==
    /\ pc = "open"
    /\ StartsWithTwoGroupsOfTwoChannels
    /\ Len(groups) = 3
    /\ Len(channels(groups[1])) = 2
    /\ Len(channels(groups[3])) = 1

----------------------------------------------------------------------------
(* C17: the group of every channel of the registry is in the registry: it  *)
(* is what group(name) finds, groups() lists it, channels() of it lists    *)
(* the channel, and when no record declared it its properties() is the     *)
(* empty list.                                                             *)
C17_ChannelHasItsGroup ==
    ReaderExists =>
        \A id \in ChannelIds :
            /\ group(id_to_path[id + 1].group) # None
            /\ LET group_id == Unwrap(group(id_to_path[id + 1].group))
               IN /\ group_id \in ObjectIds
                  /\ id_to_path[group_id + 1] = GroupObject(id_to_path[id + 1].group)
                  /\ group_id \in Range(groups)
                  /\ id \in Range(channels(group_id))
                  /\ channel(group_id, channel_name(id)) = Some(id)
                  /\ Declarations(group_id) = {} => object_properties(group_id) = <<>>

\* an opened file with a channel of a group no record declared, whose name
\* holds a quote, and with a group that was declared after its channel
C17_Witness ==
    /\ pc = "open"
    /\ \E id \in ChannelIds :
           /\ id_to_path[id + 1].group = GroupQuote
           /\ group(GroupQuote) # None
           /\ Declarations(Unwrap(group(GroupQuote))) = {}
           /\ Unwrap(group(GroupQuote)) = id + 1
    /\ \E id \in ChannelIds :
           /\ group(id_to_path[id + 1].group) # None
           /\ Declarations(Unwrap(group(id_to_path[id + 1].group))) # {}
           /\ Unwrap(group(id_to_path[id + 1].group)) > id

----------------------------------------------------------------------------
(* SpecPath: path_from_group, path_from_channel and ObjectPath::parse      *)
(* called directly: names of up to MaxNameLen characters, which may be     *)
(* quotes and slashes, are made into paths, the paths parsed, and the      *)
(* names parsed made into paths again; paths of three components are       *)
(* parsed too.                                                             *)

NameChars == {"a", QUOTE, SLASH}

RECURSIVE NamesOfLen(_)
NamesOfLen(n) ==
    IF n = 0 THEN {<<>>}
    ELSE {Append(name, ch) : name \in NamesOfLen(n - 1), ch \in NameChars}

Names == UNION {NamesOfLen(n) : n \in 0..MaxNameLen}

\* The state of a program that has not opened a file
NoFile ==
    /\ pc = "scan"
    /\ UNCHANGED <<pc, err, cursor, file_len, path_to_id, id_to_path, properties,
                   data_indexes, raw_data_index_cache, segments,
                   channel_data_index_map, object_indexes, record_log, rd,
                   last_read, scan_log>>

\* path_from_group and path_from_channel as the first call
CallPathFromGroup(name) ==
    /\ NoFile
    /\ lib_call = NoCall
    /\ lib_call' = [fn |-> "path_from_group", args |-> <<name>>,
                result |-> path_from_group(name), from |-> <<>>]

CallPathFromChannel(name, name_of_channel) ==
    /\ NoFile
    /\ lib_call = NoCall
    /\ lib_call' = [fn |-> "path_from_channel", args |-> <<name, name_of_channel>>,
                result |-> path_from_channel(name, name_of_channel),
                from |-> <<>>]

\* ObjectPath::parse of the path the last lib_call returned
CallParse ==
    /\ NoFile
    /\ lib_call.fn \in {"path_from_group", "path_from_channel"}
    /\ lib_call.from = <<>>
    /\ lib_call' = [fn |-> "parse", args |-> <<lib_call.result>>,
                result |-> parse(lib_call.result), from |-> <<lib_call>>]

\* ObjectPath::parse of a path of three components, as the first call
CallParseThree(first, second, third) ==
    /\ NoFile
    /\ lib_call = NoCall
    /\ lib_call' = [fn |-> "parse",
                args |-> <<path_from_channel(first, second)
                               \o path_from_group(third)>>,
                result |-> parse(path_from_channel(first, second)
                                     \o path_from_group(third)),
                from |-> <<>>]

\* The names the last parse returned made into a path again
CallPathFromParsed ==
    /\ NoFile
    /\ lib_call.fn = "parse"
    /\ lib_call.result # None
    /\ Unwrap(lib_call.result).kind \in {"Group", "Channel"}
    /\ lib_call' = IF Unwrap(lib_call.result).kind = "Group"
               THEN [fn |-> "path_from_group",
                     args |-> <<Unwrap(lib_call.result).group>>,
                     result |-> path_from_group(Unwrap(lib_call.result).group),
                     from |-> <<lib_call>>]
               ELSE [fn |-> "path_from_channel",
                     args |-> <<Unwrap(lib_call.result).group,
                                Unwrap(lib_call.result).channel>>,
                     result |-> path_from_channel(Unwrap(lib_call.result).group,
                                                  Unwrap(lib_call.result).channel),
                     from |-> <<lib_call>>]

PathFromGroup == \E g \in Names : CallPathFromGroup(g)

PathFromChannel == \E g \in Names, c \in Names : CallPathFromChannel(g, c)

ParseThree == \E a \in Names, b \in Names, c \in Names : CallParseThree(a, b, c)

NextPath ==
    \/ PathFromGroup
    \/ PathFromChannel
    \/ CallParse
    \/ ParseThree
    \/ CallPathFromParsed

SpecPath == Init /\ [][NextPath]_vars

----------------------------------------------------------------------------
(* C18: the parse of the path made from a group name is that group, the    *)
(* parse of the path made from a group name and a channel name is that     *)
(* channel, whatever quotes and slashes the names hold; the path made from *)
(* the names a canonical path parses to is that path; a path of more than  *)
(* two components is rejected.                                             *)
C18_PathRoundTrip ==
    /\ (lib_call.fn = "parse" /\ lib_call.from # <<>>) =>
           lib_call.result =
               IF Unwrap(lib_call.from).fn = "path_from_group"
               THEN Some(GroupObject(Unwrap(lib_call.from).args[1]))
               ELSE Some(ChannelObject(Unwrap(lib_call.from).args[1],
                                       Unwrap(lib_call.from).args[2]))
    /\ (lib_call.fn \in {"path_from_group", "path_from_channel"} /\ lib_call.from # <<>>) =>
           lib_call.result = Unwrap(lib_call.from).args[1]
    /\ (lib_call.fn = "parse" /\ lib_call.from = <<>>) => lib_call.result = None

\* a channel path whose names hold a quote and a slash, after it was parsed
\* and made again
C18_Witness ==
    /\ lib_call.fn = "path_from_channel"
    /\ lib_call.from # <<>>
    /\ lib_call.args = <<<<QUOTE, "a">>, <<SLASH, QUOTE>>>>
    /\ lib_call.result = Unwrap(lib_call.from).args[1]
    /\ Len(lib_call.result) = 12

----------------------------------------------------------------------------
(* SpecRegistry: calls of ObjectPathCache::get_or_create_id on a registry  *)
(* that starts empty, with path strings that parse to the root, to groups  *)
(* and to channels, strings that differ and parse to the same object, and  *)
(* strings that do not parse; calls are made while the registry holds      *)
(* fewer than MaxIds ids.                                                  *)

GroupSlash == GroupPath \o <<SLASH>>
ThreeComponents == ChannelA \o path_from_group(<<"C">>)

RegistryPaths ==
    {RootPath, <<>>, GroupPath, GroupSlash, ChannelA, ChannelB,
     path_from_channel(<<"H">>, <<"A">>), GroupG, ThreeComponents}

\* ObjectPathCache::get_or_create_id
CallGetOrCreateId(path) ==
    /\ pc = "scan"
    /\ segments = <<>>
    /\ Len(id_to_path) < MaxIds
    /\ LET got == get_or_create_id([p2i |-> path_to_id, i2p |-> id_to_path], path)
       IN /\ path_to_id' = got.reg.p2i
          /\ id_to_path' = got.reg.i2p
          /\ lib_call' = [fn |-> "get_or_create_id", args |-> <<path>>,
                          result |-> IF got.ok THEN Some(got.id) ELSE None,
                          from |-> <<>>]
    /\ UNCHANGED <<pc, err, cursor, file_len, properties, data_indexes,
                   raw_data_index_cache, segments, channel_data_index_map,
                   object_indexes, record_log, rd, last_read, scan_log>>

NextRegistry == \E path \in RegistryPaths : CallGetOrCreateId(path)

SpecRegistry == Init /\ [][NextRegistry]_vars

\* The ids the registry has assigned
AssignedIds(p2i) == {p2i[path] : path \in DOMAIN p2i}

\* The path of the group of a path that parses to a channel, no path else
GroupPathOf(path) ==
    IF parse(path) # None /\ Unwrap(parse(path)).kind = "Channel"
    THEN {path_from_group(Unwrap(parse(path)).group)}
    ELSE {}

(* C24: after every call of get_or_create_id the ids are 0..n-1 for the n  *)
(* path strings the registry holds, one id per string, and the object of   *)
(* an id is the parse of its string; a string the registry holds gets its  *)
(* id back and nothing is added; a new string gets the next id, and the    *)
(* path of its group, if it is a channel and the group is new, the one     *)
(* after; no id is taken away or given to another string; a string that    *)
(* does not parse gets no id and leaves the registry as it was.            *)
C24_IdsDenseAndStable ==
    [][LET path == lib_call'.args[1]
           n == Len(id_to_path)
           new == ({path} \cup GroupPathOf(path)) \ DOMAIN path_to_id
       IN /\ AssignedIds(path_to_id') = 0..(Len(id_to_path') - 1)
          /\ Cardinality(DOMAIN path_to_id') = Len(id_to_path')
          /\ \A x \in DOMAIN path_to_id' :
                 Some(id_to_path'[path_to_id'[x] + 1]) = parse(x)
          /\ \A x \in DOMAIN path_to_id :
                 /\ x \in DOMAIN path_to_id'
                 /\ path_to_id'[x] = path_to_id[x]
          /\ SubSeq(id_to_path', 1, n) = id_to_path
          /\ IF path \in DOMAIN path_to_id
             THEN /\ lib_call'.result = Some(path_to_id[path])
                  /\ path_to_id' = path_to_id
                  /\ id_to_path' = id_to_path
             ELSE IF parse(path) = None
             THEN /\ lib_call'.result = None
                  /\ path_to_id' = path_to_id
                  /\ id_to_path' = id_to_path
             ELSE /\ lib_call'.result = Some(n)
                  /\ path_to_id'[path] = n
                  /\ DOMAIN path_to_id' = DOMAIN path_to_id \cup new
                  /\ \A x \in new : x # path => path_to_id'[x] = n + 1]_vars

\* a registry of three ids: a group, then a channel of another group, whose
\* group got the id after it; the last call asked for the channel again
C24_Witness ==
    /\ lib_call.fn = "get_or_create_id"
    /\ lib_call.args = <<path_from_channel(<<"H">>, <<"A">>)>>
    /\ lib_call.result = Some(1)
    /\ Len(id_to_path) = 3
    /\ DOMAIN path_to_id = {GroupPath, path_from_channel(<<"H">>, <<"A">>),
                            path_from_group(<<"H">>)}
    /\ path_to_id[GroupPath] = 0
    /\ path_to_id[path_from_channel(<<"H">>, <<"A">>)] = 1
    /\ path_to_id[path_from_group(<<"H">>)] = 2

----------------------------------------------------------------------------
(* SpecLane: an InterleavedReader made over a chunk of up to MaxRows rows   *)
(* of chunk_width bytes, as read_interleaved_channel_data makes it, and up *)
(* to MaxReads calls of read on it with buffers of 0 to MaxBufLen bytes.   *)
(* Byte i of the chunk holds the value i, and the bytes of the buffers     *)
(* hold "old" before the call.                                             *)

LaneWidths == {2, 3}
LaneSizes == {1, 2}

\* The calls made so far: the last call and the calls it came from
RECURSIVE CallDepth(_)
CallDepth(made) == IF made.from = <<>> THEN 1 ELSE 1 + CallDepth(Unwrap(made.from))

\* The reader as the last call left it
ReaderAfter(made) ==
    IF made.fn = "InterleavedReader::new" THEN made.result ELSE made.result.ir

CallInterleavedReaderNew(stride, type_size, offset, rows) ==
    /\ NoFile
    /\ lib_call = NoCall
    /\ offset + type_size <= stride
    /\ LET bytes == [i \in 1..(rows * stride) |-> i - 1]
       IN lib_call' = [fn |-> "InterleavedReader::new",
                       args |-> <<bytes, stride, type_size, offset>>,
                       result |-> InterleavedReader(bytes, stride,
                                                    type_size, offset),
                       from |-> <<>>]

CallInterleavedRead(buf_len) ==
    /\ NoFile
    /\ lib_call.fn \in {"InterleavedReader::new", "InterleavedReader::read"}
    /\ CallDepth(lib_call) <= MaxReads
    /\ LET got == interleaved_read(ReaderAfter(lib_call), buf_len)
       IN lib_call' = [fn |-> "InterleavedReader::read",
                       args |-> <<buf_len>>,
                       result |-> [n |-> Len(got.out),
                                   buf |-> [i \in 1..buf_len |->
                                               IF i <= Len(got.out)
                                               THEN got.out[i] ELSE "old"],
                                   ir |-> got.ir],
                       from |-> <<lib_call>>]

NewLane ==
    \E stride \in LaneWidths, type_size \in LaneSizes,
       offset \in 0..2, rows \in 0..MaxRows :
        CallInterleavedReaderNew(stride, type_size, offset, rows)

ReadLane == \E buf_len \in 0..MaxBufLen : CallInterleavedRead(buf_len)

NextLane == NewLane \/ ReadLane

SpecLane == Init /\ [][NextLane]_vars

\* The bytes the read calls up to a call returned, one after the other
RECURSIVE Lane(_)
Lane(made) ==
    IF made.fn # "InterleavedReader::read" THEN <<>>
    ELSE Lane(Unwrap(made.from)) \o SubSeq(made.result.buf, 1, made.result.n)

(* C25: the bytes that read calls with buffers of any length return, put   *)
(* one after the other, are the lane of the channel: byte j is byte        *)
(* k + (j div t) * chunk_width + (j mod t) of the chunk; each call returns *)
(* the smaller of the buffer length and the bytes that remain of the       *)
(* t * (chunk bytes / chunk_width) of the lane, leaves the rest of the     *)
(* buffer as it was, and moves the position by what it returned, never     *)
(* past the end of the lane; at the end of the lane a call returns 0.      *)
C25_PartialReadsGiveTheLane ==
    lib_call.fn = "InterleavedReader::read" =>
        LET ir == ReaderAfter(lib_call)
            total == ir.type_size * (Len(ir.bytes) \div ir.chunk_width)
            before == Lane(Unwrap(lib_call.from))
            lane == Lane(lib_call)
            buf_len == lib_call.args[1]
        IN /\ \A j \in 0..(Len(lane) - 1) :
                  lane[j + 1] = ir.offset + (j \div ir.type_size) * ir.chunk_width
                                    + (j % ir.type_size)
           /\ lib_call.result.n = Min(buf_len, total - Len(before))
           /\ Len(lane) = Len(before) + lib_call.result.n
           /\ ir.position = Len(lane)
           /\ ir.position <= total
           /\ Len(lib_call.result.buf) = buf_len
           /\ \A i \in 1..buf_len :
                  i > lib_call.result.n => lib_call.result.buf[i] = "old"
           /\ Len(before) = total => lib_call.result.n = 0

\* a lane of two 2-byte elements at offset 1 of rows of 3 bytes, read by a
\* call for 1 byte and then a call for 3 bytes
C25_Witness ==
    /\ lib_call.fn = "InterleavedReader::read"
    /\ lib_call.args = <<3>>
    /\ lib_call.result.n = 3
    /\ Unwrap(lib_call.from).fn = "InterleavedReader::read"
    /\ Unwrap(lib_call.from).result.n = 1
    /\ Lane(lib_call) = <<1, 2, 4, 5>>
    /\ ReaderAfter(lib_call).chunk_width = 3

----------------------------------------------------------------------------
(* SpecValues: one call of NativeType::read_values of each native type and *)
(* byte order, for 0 to MaxCount values, on a Vec that holds 0 to MaxCount *)
(* elements, with a source that holds the bytes of the stream.             *)

NativeKinds ==
    {"I8", "I16", "I32", "I64", "U8", "U16", "U32", "U64", "F32", "F64",
     "Timestamp"}

\* A Vec of elements the caller put there
KeptElements(n) == [i \in 1..n |-> <<"kept", i>>]

CallReadValues(kind, big_endian, original_length, num_values) ==
    /\ NoFile
    /\ lib_call = NoCall
    /\ lib_call' = [fn |-> "read_values",
                    args |-> <<kind, big_endian, KeptElements(original_length),
                               num_values>>,
                    result |-> read_values_vec(
                                   kind, big_endian,
                                   KeptElements(original_length),
                                   FileBytes(0, (num_values + 1) * native_size(kind)),
                                   num_values),
                    from |-> <<>>]

NextValues ==
    \E kind \in NativeKinds, big_endian \in BOOLEAN,
       original_length \in 0..MaxCount, num_values \in 0..MaxCount :
        CallReadValues(kind, big_endian, original_length, num_values)

SpecValues == Init /\ [][NextValues]_vars

(* C26: read_values of any native type and byte order with count N takes   *)
(* N x size bytes from the source and leaves the target with exactly N     *)
(* more elements than it had: the elements it had, then the N elements     *)
(* decoded from the source in source order.  For Timestamp the target is   *)
(* first resized by N and then every timestamp read is pushed, so it ends  *)
(* with 2 x N more elements.                                               *)
C26_ReadValuesAddsExactlyN ==
    lib_call.fn = "read_values" =>
        LET kind == lib_call.args[1]
            big_endian == lib_call.args[2]
            target_buffer == lib_call.args[3]
            num_values == lib_call.args[4]
            sz == native_size(kind)
        IN /\ lib_call.result.consumed = num_values * sz
           /\ Len(lib_call.result.target) = Len(target_buffer) + num_values
           /\ \A i \in 1..Len(target_buffer) :
                  lib_call.result.target[i] = target_buffer[i]
           /\ \A j \in 1..num_values :
                  lib_call.result.target[Len(target_buffer) + j]
                      = decode(kind, big_endian, FileBytes((j - 1) * sz, sz))

----------------------------------------------------------------------------
(* SpecFailedRead: files of up to MaxSegments segments, contiguous or      *)
(* interleaved, some of them interleaved segments whose objects differ in  *)
(* length, on a stream that may end up to MaxRawLen bytes short of the end *)
(* of the raw data of the last segment; their channels are read into       *)
(* buffers as long as the values the file holds.                           *)

FailedReadSegments ==
    {Segment(TocNewList, <<WithIndex(ChannelA, Index("I8", 1))>>, MaxRawLen)}
    \cup {Segment(TocInterleaved, r, MaxChunks * RawWidth(r)) :
             r \in {<<WithIndex(ChannelA, Index("I8", MaxCount)),
                      WithIndex(ChannelB, Index("I8", MaxCount))>>,
                    <<WithIndex(ChannelA, Index("I8", 1)),
                      WithIndex(ChannelB, Index("I8", MaxCount))>>}}

ScanFailedRead ==
    /\ Len(segments) < MaxSegments
    /\ \E s \in FailedReadSegments : ScanFileSegment(s)

ReadStored ==
    \E ch \in ChannelIds : ReadAllData(ch, "I8", StoredLength(ch), FALSE)

NextFailedRead == ScanFailedRead \/ EofOrShortRawData \/ ReadStored

SpecFailedRead == Init /\ [][NextFailedRead]_vars

\* The errors of the extraction of a segment
ExtractionErrors == {"Io", "InterleavedLengths", "UnsizedInterleaved"}

\* What a segment holds for ch
StoredValues(segment, ch, kind) ==
    IF has_flag(segment.toc_mask, TocInterleavedData)
    THEN InterleavedValues(segment, ch, kind)
    ELSE ContiguousValues(segment, ch, kind)

(* C27: a read_all that returns an error of the extraction of a segment k  *)
(* of the channel has extracted the data segments before k and no other:   *)
(* their values are in the buffer, each block where a successful read puts *)
(* it; the buffer from the end of the part of segment k on is untouched;   *)
(* nothing was sought at or after the end of segment k, and no position    *)
(* was sought twice; the caller gets the error.                            *)
C27_FailedReadKeepsEarlierBlocks ==
    rd.status \in ExtractionErrors =>
        /\ pc = "open"
        /\ \E k \in DataSegments(rd.channel) :
               LET part == ChunkCount(segments[k], rd.channel)
                               * segments[k].repetitions
               IN /\ BlockSegments = {h \in DataSegments(rd.channel) : h < k}
                  /\ \A i \in 1..Len(rd.buf) :
                         i > rd.offset + part => rd.buf[i] = None
                  /\ \A i \in 1..Len(rd.seeks) :
                         rd.seeks[i] < segments[k].next_segment_position
        /\ StrictlyIncreasing(rd.seeks)
        /\ \A j \in 1..Len(rd.blocks) :
               /\ rd.blocks[j].start = IF j = 1 THEN 0
                                        ELSE rd.blocks[j - 1].start + rd.blocks[j - 1].n
               /\ rd.blocks[j].start + rd.blocks[j].n <= rd.offset
               /\ Flatten(SubSeq(rd.buf, rd.blocks[j].start + 1,
                                 rd.blocks[j].start + rd.blocks[j].n))
                      = StoredValues(segments[rd.blocks[j].seg], rd.channel, rd.kind)

\* a read that wrote the values of a first, contiguous segment and met the
\* end of the stream in the second repetition of the second segment, with
\* buffer elements left for the rest of it
C27_Witness ==
    /\ rd.status = "Io"
    /\ Len(rd.blocks) = 1
    /\ rd.blocks[1].n = MaxRawLen
    /\ ~has_flag(segments[1].toc_mask, TocInterleavedData)
    /\ has_flag(segments[2].toc_mask, TocInterleavedData)
    /\ Len(rd.buf) > rd.offset + ChunkCount(segments[2], rd.channel)
    /\ rd.buf[rd.offset + 1] # None
    /\ rd.buf[Len(rd.buf)] = None

----------------------------------------------------------------------------
(* SpecMap: up to MaxMapCalls calls of set, get and clear on an ObjectMap  *)
(* that starts empty (the map of the ObjectMerger), with ids from 0 to     *)
(* MaxMapId, and get also with the id after them.                          *)

MapValues == {"v", "w"}

\* An ObjectMap can be called: no file is opened, and fewer than
\* MaxMapCalls calls were made
MapCallable ==
    /\ pc = "scan"
    /\ segments = <<>>
    /\ lib_call.fn \in {"none", "set", "get", "clear"}
    /\ lib_call.fn # "none" => CallDepth(lib_call) < MaxMapCalls

\* The call made, after the calls made before it
MapCalled(fn, args, result) ==
    [fn |-> fn, args |-> args, result |-> result,
     from |-> IF lib_call = NoCall THEN <<>> ELSE <<lib_call>>]

\* ObjectMap::set
CallMapSet(id, v) ==
    /\ MapCallable
    /\ object_indexes' = ObjectMapSet(object_indexes, id, v)
    /\ lib_call' = MapCalled("set", <<id, v>>, <<>>)
    /\ UNCHANGED <<pc, err, cursor, file_len, path_to_id, id_to_path, properties,
                   data_indexes, raw_data_index_cache, segments,
                   channel_data_index_map, record_log, rd, last_read, scan_log>>

\* ObjectMap::get
CallMapGet(id) ==
    /\ MapCallable
    /\ object_indexes' = object_indexes
    /\ lib_call' = MapCalled("get", <<id>>, ObjectMapGet(object_indexes, id))
    /\ UNCHANGED <<pc, err, cursor, file_len, path_to_id, id_to_path, properties,
                   data_indexes, raw_data_index_cache, segments,
                   channel_data_index_map, record_log, rd, last_read, scan_log>>

\* ObjectMap::clear
CallMapClear ==
    /\ MapCallable
    /\ object_indexes' = ObjectMapClear(object_indexes)
    /\ lib_call' = MapCalled("clear", <<>>, <<>>)
    /\ UNCHANGED <<pc, err, cursor, file_len, path_to_id, id_to_path, properties,
                   data_indexes, raw_data_index_cache, segments,
                   channel_data_index_map, record_log, rd, last_read, scan_log>>

MapSet == \E id \in 0..MaxMapId, v \in MapValues : CallMapSet(id, v)

MapGet == \E id \in 0..(MaxMapId + 1) : CallMapGet(id)

NextMap == MapSet \/ MapGet \/ CallMapClear

SpecMap == Init /\ [][NextMap]_vars

\* The value of the last set of id among the calls up to a call, since the
\* last clear among them: None if there is no such set
RECURSIVE LastSet(_, _)
LastSet(made, id) ==
    IF made.fn = "clear" \/ made.fn = "none" THEN None
    ELSE IF made.fn = "set" /\ made.args[1] = id THEN Some(made.args[2])
    ELSE IF made.from = <<>> THEN None
    ELSE LastSet(Unwrap(made.from), id)

(* C28: after any calls of set and clear on an object map, get(id) is the  *)
(* value of the last set of that id since the last clear, and absent if    *)
(* there was none, also for an id beyond the length of the vector and for  *)
(* the padding below an id that was set; a set leaves what get returns for *)
(* every other id, and after a clear get is absent for every id.           *)
C28_GetIsLastSetSinceClear ==
    /\ \A id \in 0..(MaxMapId + 1) :
           ObjectMapGet(object_indexes, id) = LastSet(lib_call, id)
    /\ lib_call.fn = "get" =>
           lib_call.result = LastSet(lib_call, lib_call.args[1])
    /\ lib_call.fn = "clear" =>
           \A id \in 0..(MaxMapId + 1) : ObjectMapGet(object_indexes, id) = None
    /\ (lib_call.fn = "set" /\ lib_call.from # <<>>) =>
           \A id \in 0..(MaxMapId + 1) :
               id # lib_call.args[1] =>
                   ObjectMapGet(object_indexes, id)
                       = LastSet(Unwrap(lib_call.from), id)

\* after a clear, the highest id was set, which made padding below it, and
\* then an id below it was asked for and found absent
C28_Witness ==
    /\ lib_call.fn = "get"
    /\ lib_call.args = <<MaxMapId - 1>>
    /\ lib_call.result = None
    /\ lib_call.from # <<>>
    /\ Unwrap(lib_call.from).fn = "set"
    /\ Unwrap(lib_call.from).args[1] = MaxMapId
    /\ Unwrap(lib_call.from).from # <<>>
    /\ Unwrap(Unwrap(lib_call.from).from).fn = "clear"
    /\ Len(object_indexes) = MaxMapId + 1

----------------------------------------------------------------------------
(* SpecWrap: the scan of files of up to MaxWrapSegments segments without   *)
(* data, some of whose lead-ins hold a next_segment_offset so large that   *)
(* position + 28 + next_segment_offset is beyond the u64 range.  The u64   *)
(* offset 2^64 - m is written -m here: for m <= position + 28 the sum      *)
(* position + 28 - m is then the u64 sum modulo 2^64, which is what the    *)
(* addition gives in a build without overflow checks; a build with         *)
(* overflow checks panics at the addition.                                 *)

WrapSegments ==
    {Segment(TocNoMetadata, <<>>, n) : n \in {0, MaxRawLen}}
        \cup {Segment(TocNewList, <<NoData(ch)>>, 0) : ch \in {ChannelA, ChannelB}}

ScanWhole ==
    /\ Len(segments) < MaxWrapSegments
    /\ \E s \in WrapSegments : ScanFileSegment(s)

\* read_segment at a lead-in with next_segment_offset = 2^64 - m, in a build
\* without overflow checks
ScanWrapped(m) ==
    /\ Len(segments) < MaxWrapSegments
    /\ m >= 1
    /\ m <= cursor + lead_in_length
    /\ ScanSegment(TocNoMetadata, 0 - m, 0, <<>>)

\* read_segment at a lead-in with next_segment_offset = 2^64 - m, in a build
\* with overflow checks: the addition panics
ScanOverflow(m) ==
    /\ pc = "scan"
    /\ Len(segments) < MaxWrapSegments
    /\ m >= 1
    /\ m <= cursor + lead_in_length
    /\ scan_log' = Append(scan_log, Tried(cursor, 4, TRUE, "panic"))
    /\ DropReader(next_step("panic"), "", record_log)

\* The offsets that lead back into the file: to the segment itself, to the
\* start of the file, and to the byte after the start of the segment
BackOffsets == {lead_in_length, cursor + lead_in_length, lead_in_length - 1}

Wrapped == \E m \in BackOffsets : ScanWrapped(m)

Overflow == \E m \in BackOffsets : ScanOverflow(m)

NextWrap == ScanWhole \/ Wrapped \/ Overflow \/ Eof

SpecWrap == Init /\ [][NextWrap]_vars

\* Where the scan went after the read_segment call i
PositionAfter(i) ==
    IF i < Len(scan_log) THEN scan_log[i + 1].position ELSE cursor

(* C29: the scan ends with a reader or an error, and every segment it      *)
(* scanned names a position for the next segment that is beyond its own    *)
(* start, so that the starts of the segments increase, also for a          *)
(* next_segment_offset with which position + 28 + next_segment_offset is   *)
(* beyond the u64 range.  The sum is not guarded: it panics or wraps, and  *)
(* the wrapped position can be the start of the segment itself.            *)
C29_SegmentStartsIncrease ==
    /\ pc # "panic"
    /\ \A i \in 1..Len(scan_log) :
           scan_log[i].result = "Some" => PositionAfter(i) > scan_log[i].position

----------------------------------------------------------------------------
(* SpecAlias: the scan of files of up to MaxObjectSegments segments, each  *)
(* declaring one object without data, whose path strings include strings   *)
(* that parse to the path of another string: a path with a slash after its *)
(* last component, and the empty string.                                   *)

ChannelSlash == ChannelA \o <<SLASH>>

AliasPaths == {RootPath, <<>>, GroupPath, GroupSlash, ChannelA, ChannelSlash}

AliasSegments == {Segment(TocNewList, <<NoData(path)>>, 0) : path \in AliasPaths}

ScanAlias ==
    /\ Len(segments) < MaxObjectSegments
    /\ \E s \in AliasSegments : ScanFileSegment(s)

NextAlias == ScanAlias \/ Eof

SpecAlias == Init /\ [][NextAlias]_vars

\* The group/channel name pairs Group::channels yields, in order
ChannelPairs(group_id) ==
    [i \in 1..Len(channels(group_id)) |->
        <<group_name(group_id), channel_name(channels(group_id)[i])>>]

\* No element of the sequence occurs twice
Injective(seq) ==
    \A i, j \in 1..Len(seq) : seq[i] = seq[j] => i = j

(* C30: in an opened file no two object ids have the same parsed path,     *)
(* groups() yields no two groups of one name, the channels() of a group    *)
(* yields no name pair twice, and every channel that channels() yields is  *)
(* the one channel(name) returns for its name.  The registry is keyed by   *)
(* the path string, and two strings can parse to one path.                 *)
C30_OneIdPerParsedPath ==
    pc = "open" =>
        /\ Injective(id_to_path)
        /\ Injective([i \in 1..Len(groups) |-> group_name(groups[i])])
        /\ \A g \in Range(groups) :
               /\ Injective(ChannelPairs(g))
               /\ \A c \in Range(channels(g)) :
                      channel(g, channel_name(c)) = Some(c)

====
